---- MODULE Spec2Model ----
(***************************************************************************)
(* Verification model of the HireLens AI evaluation core:                  *)
(*   feature extraction -> ATS simulation -> recruiter evaluation ->       *)
(*   interview readiness -> score aggregation with signal compounding,     *)
(*   and the orchestrator that sequences the stages over a context.        *)
(*                                                                         *)
(* Number representation (fixed point, exact):                             *)
(*   scores        in hundredths of a point      (100.00  = 10000)         *)
(*   probabilities in units of 1e-5              (1.0     = 100000)        *)
(*   ratios (career / stability scores) in hundredths (1.0 = 100)          *)
(* Optional values are sequences: <<>> is None, <<x>> is the value x.      *)
(***************************************************************************)
EXTENDS Integers, Sequences, FiniteSets, TLC

VARIABLES
    \* ---- evaluator pipeline -------------------------------------------
    resume,             \* ParsedResumeInternal handed to the core
    jd,                 \* ParsedJobDescriptionInternal handed to the core
    features,           \* Optional FeatureVectorInternal (result of extract)
    ats_result,         \* Optional ATSResultInternal
    recruiter_result,   \* Optional RecruiterResultInternal
    interview_result,   \* Optional InterviewReadinessResultInternal
    pc,                 \* position of the evaluator pipeline / aggregator
    hash_order,         \* iteration order of a set of str in this interpreter process
    first_outputs,      \* Optional: what the evaluators returned in an earlier process
    \* ---- ScoreAggregator.aggregate -----------------------------------
    signal_summary,     \* Optional SignalCompoundingSummary
    adjusted,           \* Optional StageProbabilities being adjusted
    sig_idx,            \* index of the next signal to apply in the current loop
    aggregated_score,   \* Optional AggregatedScoreInternal returned by aggregate
    \* ---- AnalysisOrchestrator.run ------------------------------------
    active,             \* contexts on which run() has been called
    run_pc,             \* per context: position inside run()
    stage_idx,          \* per context: index of the current stage in the for loop
    start_time,         \* per context: AnalysisContext.start_time
    stage_statuses,     \* per context: AnalysisContext.stage_statuses
    stage_timings,      \* per context: AnalysisContext.stage_timings
    stage_results,      \* per context: result fields written by the stage methods
    stage_start,        \* per context: local variable stage_start
    clock,              \* time.time()
    outcome,            \* per context and stage: what the stage computation did
    attempts,           \* per context: stage methods called so far, in call order
    \* ---- RecommendationEngine.generate, ExplainabilityEngine.explain --
    recommendations,    \* Optional list of Recommendation returned by generate
    counterfactuals     \* Optional list of CounterfactualScenario of the artifact

pipe_vars == <<resume, jd, features, ats_result, recruiter_result, interview_result,
               pc, hash_order, first_outputs>>
agg_vars  == <<signal_summary, adjusted, sig_idx, aggregated_score>>
orch_vars == <<active, run_pc, stage_idx, start_time, stage_statuses, stage_timings, stage_results,
               stage_start, clock, outcome, attempts>>
expl_vars == <<recommendations, counterfactuals>>
vars == <<pipe_vars, agg_vars, orch_vars, expl_vars>>

-----------------------------------------------------------------------------
(* Generic helpers *)

None == <<>>
Some(x) == <<x>>
IsNone(o) == Len(o) = 0
Get(o) == o[1]

Min(a, b) == IF a <= b THEN a ELSE b
Max(a, b) == IF a >= b THEN a ELSE b

SeqsUpTo(S, n) == UNION {[1..k -> S] : k \in 0..n}

InSeq(x, s) == \E i \in DOMAIN s : s[i] = x

RECURSIVE SumSeq(_)
SumSeq(s) == IF s = <<>> THEN 0 ELSE Head(s) + SumSeq(Tail(s))

RECURSIVE Flatten(_)
Flatten(ss) == IF ss = <<>> THEN <<>> ELSE Head(ss) \o Flatten(Tail(ss))

Prefix(s, n) == SubSeq(s, 1, Min(n, Len(s)))

IsPrefixOf(s, t) == Len(s) <= Len(t) /\ SubSeq(t, 1, Len(s)) = s

\* round(n/d, 0) for n, d > 0 (no exact halves occur for the ratios used)
RoundDiv(n, d) == (2 * n + d) \div (2 * d)

\* round(n/d, 0) where n/d can be an exact half: the float that stands for
\* the half lies on either side of it, so both neighbours can come out
RoundCandidates(n, d) ==
    {q \in {n \div d, n \div d + 1} : 2 * d * q - 2 * n <= d /\ 2 * n - 2 * d * q <= d}

Severities == {"low", "medium", "high", "critical"}

-----------------------------------------------------------------------------
(* Bounds *)

MaxJobs == 2          \* work-experience entries of a resume
MaxRedFlags == 1      \* red flags in a free recruiter result
MaxRisks == 2         \* consistency risks in a free interview result
ScoreSteps == 2       \* grid resolution of free stage scores

FullScore == 10000    \* 100.0 points, in hundredths
PUnit == 100000       \* probability 1.0, in units of 1e-5

\* Stage scores handed to aggregate(): a grid that also leaves [0,100] on both
\* sides, plus values around the thresholds 40, 50 and 80 of the signal rules.
ScoreGrid == {(i * FullScore) \div ScoreSteps : i \in -1..(ScoreSteps + 1)}
ThresholdScores == {4499, 8000}
FreeScores == ScoreGrid \cup ThresholdScores

-----------------------------------------------------------------------------
(* Parsed inputs: the texts, skills and records the evaluators are run on *)

LongNarrative250 == "Developed ... (a narrative of 250 words)"
LongNarrative1600 == "Developed ... (a narrative of 1600 words)"

Texts == {"Increased sales by 30% through targeted outreach",
          "Helped the team",
          "Built python services",
          "Made significant changes to internal processes",
          "Worked on sql reports",
          "Did QA",
          "Helped migrate 3 databases",
          "Helped increase sales by 30%",
          LongNarrative250,
          LongNarrative1600}

\* len(text.split())
Words(t) ==
    CASE t = "Increased sales by 30% through targeted outreach" -> 7
      [] t = "Helped the team" -> 3
      [] t = "Built python services" -> 3
      [] t = "Made significant changes to internal processes" -> 6
      [] t = "Worked on sql reports" -> 4
      [] t = "Did QA" -> 2
      [] t = "Helped migrate 3 databases" -> 4
      [] t = "Helped increase sales by 30%" -> 5
      [] t = LongNarrative250 -> 250
      [] t = LongNarrative1600 -> 1600

\* len(text) of the stripped text
Chars(t) ==
    CASE t = "Increased sales by 30% through targeted outreach" -> 48
      [] t = "Helped the team" -> 15
      [] t = "Built python services" -> 21
      [] t = "Made significant changes to internal processes" -> 46
      [] t = "Worked on sql reports" -> 21
      [] t = "Did QA" -> 6
      [] t = "Helped migrate 3 databases" -> 26
      [] t = "Helped increase sales by 30%" -> 28
      [] t = LongNarrative250 -> 1254
      [] t = LongNarrative1600 -> 8004

\* any(char.isdigit() for char in text)
HasDigit(t) ==
    t \in {"Increased sales by 30% through targeted outreach", "Helped migrate 3 databases",
           "Helped increase sales by 30%"}

\* str.lower() on the skill and degree names in use
Lower(str) ==
    CASE str = "Python" -> "python"
      [] str = "SQL" -> "sql"
      [] str = "BSc Computer Science" -> "bsc computer science"
      [] str = "High School Diploma" -> "high school diploma"
      [] str = "BSc" -> "bsc"
      [] OTHER -> str

LowerAll(strs) == [i \in DOMAIN strs |-> Lower(strs[i])]

\* str.strip()
Strip(str) == IF str = "  " THEN "" ELSE str

\* needle in haystack, for a lower-cased skill and the lower-cased text
Mentions(skill_lower, t) ==
    \/ skill_lower = "python" /\ t = "Built python services"
    \/ skill_lower = "sql" /\ t = "Worked on sql reports"

\* required_edu_lower in degree.lower()
DegreeContains(required_lower, degree_lower) ==
    required_lower = "bsc" /\ degree_lower = "bsc computer science"

Job(title, dated, achievements, description) ==
    [title |-> title, start_date |-> dated, end_date |-> dated,
     achievements |-> achievements, description |-> description]

\* work-experience entries; a description is given by its bullet fragments,
\* the string being the fragments joined by "\n- "
JobSamples ==
    {Job("Engineer", TRUE, <<"Increased sales by 30% through targeted outreach">>,
         <<LongNarrative250>>),
     Job("Engineer", FALSE, <<>>, <<"Helped the team", "Worked on sql reports">>),
     Job("Senior Engineer", TRUE,
         <<"Helped the team", "Did QA", "Made significant changes to internal processes">>,
         <<"Worked on sql reports", "Helped migrate 3 databases">>),
     Job("", FALSE, <<>>, <<>>),
     Job("Manager", TRUE, <<"Built python services", "Helped increase sales by 30%">>,
         <<LongNarrative1600>>)}

EmailSamples == {None, Some("  "), Some("ada@example.org")}
PhoneSamples == {None, Some("555 0100")}
EducationSamples == {<<>>, <<[degree |-> "BSc Computer Science"]>>,
                     <<[degree |-> "High School Diploma"]>>}
SkillSamples == {<<>>, <<"Python">>, <<"python", "SQL">>}
RequiredSkillSamples == {<<>>, <<"python">>, <<"Python", "sql">>, <<"python", "SQL", "Python">>}
RequiredEducationSamples == {None, Some("BSc")}

ParsedResumes ==
    [email : EmailSamples, phone : PhoneSamples,
     work_experience : SeqsUpTo(JobSamples, MaxJobs),
     education : EducationSamples, skills : SkillSamples]

ParsedJobDescriptions ==
    [required_skills : RequiredSkillSamples, required_education : RequiredEducationSamples]

\* the iteration orders a set of the lower-cased skill names can have,
\* fixed by the string hash seed of the interpreter process
HashOrders == {<<"python", "sql">>, <<"sql", "python">>}

\* list(a_set)
ListOfSet(S, order) == SelectSeq(order, LAMBDA x : x \in S)

-----------------------------------------------------------------------------
(* FeatureExtractor *)

\* what one _compute_* method leaves behind: the value it returns, whether it
\* appended its name to missing_features, and its computation_method entry
Computed(value, method) == [value |-> value, missing |-> FALSE, method |-> Some(method)]
Missing(value) == [value |-> value, missing |-> TRUE, method |-> None]
Unrecorded(value) == [value |-> value, missing |-> FALSE, method |-> None]

\* the skills list is always a list here, never None
compute_skills_count(r) == Computed(Len(r.skills), "deterministic_rule")

\* variant: the required skills are compared with the resume skills as written
MatchCount_CaseSensitive(r, j) ==
    Cardinality({i \in DOMAIN j.required_skills : InSeq(j.required_skills[i], r.skills)})

MatchCount(r, j) ==
    Cardinality({i \in DOMAIN j.required_skills :
                    InSeq(Lower(j.required_skills[i]), LowerAll(r.skills))})

compute_keyword_match_count(r, j) ==
    IF r.skills = <<>> \/ j.required_skills = <<>>
    THEN Missing(0)
    ELSE Computed(MatchCount(r, j), "deterministic_rule")

\* len(description.split()) for the fragments joined by "\n- "
DescriptionWords(description) ==
    IF description = <<>> THEN 0
    ELSE SumSeq([i \in DOMAIN description |-> Words(description[i])]) + (Len(description) - 1)

compute_resume_length_words(r) ==
    LET word_count == SumSeq([i \in DOMAIN r.work_experience |->
                                 DescriptionWords(r.work_experience[i].description)])
    IN  IF r.work_experience # <<>> /\ word_count > 0
        THEN Computed(word_count, "deterministic_rule")
        ELSE Missing(0)

compute_years_experience(r) ==
    IF r.work_experience = <<>>
    THEN Missing(0)
    ELSE Computed(Cardinality({i \in DOMAIN r.work_experience :
                                  r.work_experience[i].start_date /\ r.work_experience[i].end_date}),
                  "deterministic_heuristic")

compute_has_required_skills(r, j) ==
    IF r.skills = <<>> \/ j.required_skills = <<>>
    THEN Missing(FALSE)
    ELSE Computed(\A i \in DOMAIN j.required_skills :
                      InSeq(Lower(j.required_skills[i]), LowerAll(r.skills)),
                  "deterministic_rule")

compute_has_required_degree(r, j) ==
    IF IsNone(j.required_education) \/ Get(j.required_education) = ""
    THEN Missing(FALSE)
    ELSE IF r.education = <<>>
    THEN Unrecorded(FALSE)
    ELSE Computed(\E i \in DOMAIN r.education :
                      DegreeContains(Lower(Get(j.required_education)),
                                     Lower(r.education[i].degree)),
                  "deterministic_rule")

\* the six features in the order extract() computes them
FeatureNames == <<"skills_count", "keyword_match_count", "resume_length_words",
                  "years_experience", "has_required_skills", "has_required_degree">>

FeatureExtractor_extract(r, j) ==
    LET c == [skills_count |-> compute_skills_count(r),
              keyword_match_count |-> compute_keyword_match_count(r, j),
              resume_length_words |-> compute_resume_length_words(r),
              years_experience |-> compute_years_experience(r),
              has_required_skills |-> compute_has_required_skills(r, j),
              has_required_degree |-> compute_has_required_degree(r, j)]
        computed == {n \in DOMAIN c : ~IsNone(c[n].method)}
    IN  [quantitative |-> [years_experience |-> Some(c.years_experience.value),
                           skills_count |-> Some(c.skills_count.value),
                           keyword_match_count |-> Some(c.keyword_match_count.value),
                           resume_length_words |-> Some(c.resume_length_words.value)],
         categorical |-> [has_required_skills |-> Some(c.has_required_skills.value),
                          has_required_degree |-> Some(c.has_required_degree.value)],
         missing_features |-> SelectSeq(FeatureNames, LAMBDA n : c[n].missing),
         computation_method |-> [n \in computed |-> Get(c[n].method)]]

\* FeatureExtractor.extract on the parsed inputs
Extract ==
    /\ pc = "extract"
    /\ features' = Some(FeatureExtractor_extract(resume, jd))
    /\ pc' = "simulate"
    /\ UNCHANGED <<resume, jd, ats_result, recruiter_result, interview_result,
                   hash_order, first_outputs, agg_vars, orch_vars, expl_vars>>

-----------------------------------------------------------------------------
(* ATSSimulator *)

Present(field) == ~IsNone(field) /\ Strip(Get(field)) # ""

check_required_fields(r) ==
    LET email == Present(r.email)
        phone == Present(r.phone)
        work_history == Len(r.work_experience) > 0
    IN  [status |-> [email |-> email, phone |-> phone, work_history |-> work_history,
                     education |-> Len(r.education) > 0,
                     all_present |-> email /\ phone /\ work_history],
         reasons |-> (IF ~email THEN <<"Missing required field: email">> ELSE <<>>)
                     \o (IF ~phone THEN <<"Missing required field: phone">> ELSE <<>>)
                     \o (IF ~work_history THEN <<"Missing required field: work history">>
                         ELSE <<>>)]

\* a filter that is defined and False
Failed(filter) == ~IsNone(filter) /\ ~Get(filter)

\* variant: a filter that is not defined counts as not met
AllMet_UndefinedFails(experience_met, education_met) ==
    IF ~IsNone(experience_met) /\ ~IsNone(education_met)
    THEN Some(Get(experience_met) /\ Get(education_met))
    ELSE IF ~IsNone(experience_met) \/ ~IsNone(education_met) THEN Some(FALSE)
    ELSE None

\* the if / elif / elif that sets filters.all_met
AllMet(experience_met, education_met) ==
    IF ~IsNone(experience_met) /\ ~IsNone(education_met)
    THEN Some(Get(experience_met) /\ Get(education_met))
    ELSE IF ~IsNone(experience_met) THEN experience_met
    ELSE education_met

check_hard_filters(fv) ==
    LET experience_met == fv.categorical.has_required_skills
        education_met == fv.categorical.has_required_degree
    IN  [filters |-> [experience_met |-> experience_met,
                      education_met |-> education_met,
                      certifications_met |-> None,
                      all_met |-> AllMet(experience_met, education_met)],
         reasons |-> (IF Failed(experience_met)
                      THEN <<"Hard filter failed: missing required skills">> ELSE <<>>)
                     \o (IF Failed(education_met)
                         THEN <<"Hard filter failed: missing required education">> ELSE <<>>)]

compute_keyword_matching(r, j, fv) ==
    LET required_keywords == j.required_skills
        resume_skills_lower == LowerAll(r.skills)
        matched == SelectSeq(required_keywords,
                             LAMBDA k : InSeq(Lower(k), resume_skills_lower))
        missing == SelectSeq(required_keywords,
                             LAMBDA k : ~InSeq(Lower(k), resume_skills_lower))
        total_matched == IF ~IsNone(fv.quantitative.keyword_match_count)
                         THEN Get(fv.quantitative.keyword_match_count)
                         ELSE Len(matched)
    IN  IF Len(required_keywords) = 0
        THEN [breakdown |-> [matched_keywords |-> <<>>, missing_keywords |-> <<>>,
                             total_required |-> 0, total_matched |-> 0],
              reasons |-> <<>>]
        ELSE [breakdown |-> [matched_keywords |->
                                [i \in DOMAIN matched |->
                                    [keyword |-> matched[i], location |-> "skills", weight |-> 1]],
                             missing_keywords |-> missing,
                             total_required |-> Len(required_keywords),
                             total_matched |-> total_matched],
              reasons |-> IF total_matched < Len(required_keywords)
                          THEN <<<<"Missing required keyword(s)",
                                   Len(required_keywords) - total_matched,
                                   Prefix(missing, 5)>>>>
                          ELSE <<>>]

\* variant: no required keyword counts as nothing matched
calculate_keyword_match_percentage_ZeroWhenEmpty(breakdown) ==
    IF breakdown.total_required = 0 THEN 0
    ELSE RoundDiv(breakdown.total_matched * FullScore, breakdown.total_required)

\* round(matched / required * 100.0, 2) in hundredths; 100.0 without requirements
calculate_keyword_match_percentage(breakdown) ==
    IF breakdown.total_required = 0 THEN FullScore
    ELSE RoundDiv(breakdown.total_matched * FullScore, breakdown.total_required)

\* variant: the keyword penalty is not capped at 20
CompatibilityDeductions_UncappedKeywordPenalty(result) ==
    (IF ~result.required_fields_status.email THEN 2500 ELSE 0)
    + (IF ~result.required_fields_status.phone THEN 2500 ELSE 0)
    + (IF ~result.required_fields_status.work_history THEN 3000 ELSE 0)
    + (IF Failed(result.hard_filters.experience_met) THEN 2000 ELSE 0)
    + (IF Failed(result.hard_filters.education_met) THEN 1500 ELSE 0)
    + (IF result.keyword_match_percentage < 6000
       THEN 6000 - result.keyword_match_percentage ELSE 0)

\* the score before the final max(0.0, ...)
CompatibilityDeductions(result) ==
    (IF ~result.required_fields_status.email THEN 2500 ELSE 0)
    + (IF ~result.required_fields_status.phone THEN 2500 ELSE 0)
    + (IF ~result.required_fields_status.work_history THEN 3000 ELSE 0)
    + (IF Failed(result.hard_filters.experience_met) THEN 2000 ELSE 0)
    + (IF Failed(result.hard_filters.education_met) THEN 1500 ELSE 0)
    + (IF result.keyword_match_percentage < 6000
       THEN Min(6000 - result.keyword_match_percentage, 2000) ELSE 0)

\* variant: the score is returned without the floor at 0
calculate_compatibility_score_NoFloor(result) ==
    FullScore - CompatibilityDeductions(result)

calculate_compatibility_score(result) ==
    Max(0, FullScore - CompatibilityDeductions(result))

ATSSimulator_simulate(r, j, fv, ats_type) ==
    LET fields == check_required_fields(r)
        hard == check_hard_filters(fv)
        keywords == compute_keyword_matching(r, j, fv)
        partial == [ats_type |-> ats_type,
                    required_fields_status |-> fields.status,
                    hard_filters |-> hard.filters,
                    keyword_breakdown |-> keywords.breakdown,
                    keyword_match_percentage |->
                        calculate_keyword_match_percentage(keywords.breakdown),
                    rejection_reasons |-> fields.reasons \o hard.reasons \o keywords.reasons]
    IN  [ats_type |-> partial.ats_type,
         required_fields_status |-> partial.required_fields_status,
         hard_filters |-> partial.hard_filters,
         keyword_breakdown |-> partial.keyword_breakdown,
         keyword_match_percentage |-> partial.keyword_match_percentage,
         rejection_reasons |-> partial.rejection_reasons,
         compatibility_score |-> calculate_compatibility_score(partial)]

\* ATSSimulator.simulate on the parsed inputs and the extracted features
Simulate ==
    /\ pc = "simulate"
    /\ ats_result' = Some(ATSSimulator_simulate(resume, jd, Get(features), "generic"))
    /\ pc' = "recruiter"
    /\ UNCHANGED <<resume, jd, features, recruiter_result, interview_result,
                   hash_order, first_outputs, agg_vars, orch_vars, expl_vars>>

-----------------------------------------------------------------------------
(* RecruiterEvaluator *)

Distinct(strs) == {strs[i] : i \in DOMAIN strs}

analyze_career_progression(r) ==
    LET work_experience == r.work_experience
        all_titles == [i \in DOMAIN work_experience |-> work_experience[i].title]
        titles == SelectSeq(all_titles, LAMBDA t : t # "")
        promotions == IF Len(titles) >= 2 THEN Len(titles) - 1 ELSE 0
        unique_titles == Cardinality(Distinct(titles))
    IN  IF Len(work_experience) < 2
        THEN [trajectory |-> "insufficient_data", promotions_count |-> None,
              responsibility_increase |-> None, title_progression |-> <<>>]
        ELSE [trajectory |-> IF Len(titles) >= 2
                             THEN (IF unique_titles = Len(titles) THEN "upward"
                                   ELSE IF unique_titles = 1 THEN "lateral"
                                   ELSE "mixed")
                             ELSE "insufficient_data",
              promotions_count |-> IF promotions > 0 THEN Some(promotions) ELSE None,
              responsibility_increase |-> Some(Len(work_experience) > 1),
              title_progression |-> titles]

\* career progression score in hundredths (0.5 = 50)
compute_career_progression_score(analysis) ==
    IF analysis.trajectory = "insufficient_data" THEN 50
    ELSE LET by_trajectory == CASE analysis.trajectory = "upward" -> 30
                                [] analysis.trajectory = "mixed" -> 10
                                [] analysis.trajectory = "lateral" -> 0
                                [] analysis.trajectory = "downward" -> -20
             by_promotions == IF ~IsNone(analysis.promotions_count)
                                 /\ Get(analysis.promotions_count) > 0
                              THEN Min(20, Get(analysis.promotions_count) * 5) ELSE 0
             by_responsibility == IF ~IsNone(analysis.responsibility_increase)
                                     /\ Get(analysis.responsibility_increase)
                                  THEN 10 ELSE 0
         IN  Max(0, Min(100, 50 + by_trajectory + by_promotions + by_responsibility))

\* variant: a job without dates counts as a short tenure
analyze_job_stability_UndatedShort(r) ==
    IF r.work_experience = <<>>
    THEN [average_tenure_months |-> 0, short_tenure_jobs_count |-> 0, employment_gaps |-> <<>>]
    ELSE [average_tenure_months |-> 24,
          short_tenure_jobs_count |->
              Cardinality({i \in DOMAIN r.work_experience : ~r.work_experience[i].start_date}),
          employment_gaps |-> <<>>]

\* tenure in months; no dates are parsed, so no short tenures and no gaps
analyze_job_stability(r) ==
    IF r.work_experience = <<>>
    THEN [average_tenure_months |-> 0, short_tenure_jobs_count |-> 0, employment_gaps |-> <<>>]
    ELSE [average_tenure_months |-> 24, short_tenure_jobs_count |-> 0, employment_gaps |-> <<>>]

RedFlag(type, severity, description) ==
    [type |-> type, severity |-> severity, description |-> description]

\* job stability score in hundredths, and the red flags appended on the way
compute_job_stability_score(analysis) ==
    LET avg == analysis.average_tenure_months
        short == analysis.short_tenure_jobs_count
        total_gap_months == SumSeq([i \in DOMAIN analysis.employment_gaps |->
                                       analysis.employment_gaps[i].duration_months])
        low_tenure == avg < 12
        has_short == short > 0
        has_gap == analysis.employment_gaps # <<>> /\ total_gap_months > 6
        score == 100
                 - (IF low_tenure THEN Min(40, ((12 - avg) * 40) \div 12) ELSE 0)
                 - (IF has_short THEN Min(30, short * 10) ELSE 0)
                 - (IF has_gap THEN Min(30, ((total_gap_months - 6) * 100) \div 12) ELSE 0)
    IN  [score |-> Max(0, Min(100, score)),
         red_flags |->
            (IF low_tenure
             THEN <<RedFlag("job_hopping", IF avg < 6 THEN "high" ELSE "medium",
                            <<"Average job tenure in months", avg>>)>>
             ELSE <<>>)
            \o (IF has_short
                THEN <<RedFlag("job_hopping", IF short = 1 THEN "medium" ELSE "high",
                               <<"Jobs with tenure less than 12 months", short>>)>>
                ELSE <<>>)
            \o (IF has_gap
                THEN <<RedFlag("employment_gap",
                               IF total_gap_months > 12 THEN "high" ELSE "medium",
                               <<"Employment gap months", total_gap_months>>)>>
                ELSE <<>>)]

AchievementsCount(job) ==
    Len(job.achievements)
    + (IF job.description # <<>> /\ \E i \in DOMAIN job.description : HasDigit(job.description[i])
       THEN 1 ELSE 0)

\* the red flags _check_resume_quality appends
check_resume_quality(r, fv) ==
    LET resume_length == IF IsNone(fv.quantitative.resume_length_words) THEN 0
                         ELSE Get(fv.quantitative.resume_length_words)
        achievements_count == SumSeq([i \in DOMAIN r.work_experience |->
                                         AchievementsCount(r.work_experience[i])])
    IN  (IF resume_length < 200
         THEN <<RedFlag("generic_resume", "medium", <<"Resume is very short", resume_length>>)>>
         ELSE IF resume_length > 1500
         THEN <<RedFlag("formatting_issues", "low", <<"Resume is very long", resume_length>>)>>
         ELSE <<>>)
        \o (IF achievements_count = 0
            THEN <<RedFlag("generic_resume", "medium",
                           <<"Resume lacks quantifiable achievements or metrics">>)>>
            ELSE <<>>)

\* variant: every red flag costs the same
RedFlagDeduction_Flat(red_flag) == 500

RedFlagDeduction(red_flag) ==
    CASE red_flag.severity = "critical" -> 2000
      [] red_flag.severity = "high" -> 1000
      [] red_flag.severity = "medium" -> 500
      [] red_flag.severity = "low" -> 200
      [] OTHER -> 0

\* the evaluation score before the clamp to [0,100]
EvaluationRawScore(career_progression_score, job_stability_score, red_flags) ==
    FullScore
    - (IF career_progression_score < 50 THEN (50 - career_progression_score) * 30 ELSE 0)
    - (IF job_stability_score < 50 THEN (50 - job_stability_score) * 40 ELSE 0)
    - SumSeq([i \in DOMAIN red_flags |-> RedFlagDeduction(red_flags[i])])

compute_evaluation_score(career_progression_score, job_stability_score, red_flags) ==
    Max(0, Min(FullScore,
               EvaluationRawScore(career_progression_score, job_stability_score, red_flags)))

RecruiterEvaluator_evaluate(r, fv, recruiter_persona) ==
    LET career_analysis == analyze_career_progression(r)
        career_progression_score == compute_career_progression_score(career_analysis)
        stability_analysis == analyze_job_stability(r)
        stability == compute_job_stability_score(stability_analysis)
        red_flags == stability.red_flags \o check_resume_quality(r, fv)
    IN  [recruiter_persona |-> recruiter_persona,
         career_progression_analysis |-> career_analysis,
         career_progression_score |-> career_progression_score,
         job_stability_analysis |-> stability_analysis,
         job_stability_score |-> stability.score,
         red_flags |-> red_flags,
         evaluation_score |-> compute_evaluation_score(career_progression_score,
                                                       stability.score, red_flags)]

\* _compute_evaluation_score on a result whose two scores and red flags are set
ComputeEvaluationScore ==
    /\ pc = "evaluation_score"
    /\ LET result == Get(recruiter_result)
       IN  recruiter_result' =
               Some([result EXCEPT !.evaluation_score =
                        compute_evaluation_score(result.career_progression_score,
                                                 result.job_stability_score,
                                                 result.red_flags)])
    /\ pc' = "evaluated"
    /\ UNCHANGED <<resume, jd, features, ats_result, interview_result,
                   hash_order, first_outputs, agg_vars, orch_vars, expl_vars>>

\* RecruiterEvaluator.evaluate on the parsed resume and the extracted features
EvaluateRecruiter ==
    /\ pc = "recruiter"
    /\ recruiter_result' = Some(RecruiterEvaluator_evaluate(resume, Get(features), "generic"))
    /\ pc' = "interview"
    /\ UNCHANGED <<resume, jd, features, ats_result, interview_result,
                   hash_order, first_outputs, agg_vars, orch_vars, expl_vars>>

-----------------------------------------------------------------------------
(* InterviewReadinessEvaluator *)

\* the metric regular expression of _evaluate_defensibility finds a match
HasMetrics(t) ==
    t \in {"Increased sales by 30% through targeted outreach", "Helped increase sales by 30%"}

\* the action-verb regular expression finds a match
HasSpecificActions(t) ==
    t \in {"Increased sales by 30% through targeted outreach", "Built python services",
           LongNarrative250, LongNarrative1600}

\* one of the vague_indicators occurs in the lower-cased text
IsVague(t) ==
    t \in {"Helped the team", "Worked on sql reports", "Helped migrate 3 databases",
           "Helped increase sales by 30%"}

\* one of the broad_indicators occurs in the lower-cased text
HasBroadIndicator(t) == t = "Made significant changes to internal processes"

\* the list _extract_supporting_evidence returns (group matches may be empty)
SupportingEvidence(t) ==
    CASE t = "Increased sales by 30% through targeted outreach" -> <<"30%", "">>
      [] t = "Helped migrate 3 databases" -> <<"">>
      [] t = "Helped increase sales by 30%" -> <<"30%", "">>
      [] OTHER -> <<>>

\* text[:n]
Truncate(t, n) == IF Chars(t) <= n THEN t ELSE <<t, n>>

\* variant: the vague markers are looked at before the metric
evaluate_defensibility_VagueFirst(t) ==
    IF IsVague(t) THEN <<30, "surface">>
    ELSE IF HasMetrics(t) THEN <<90, "deep">>
    ELSE IF HasSpecificActions(t) THEN <<70, "moderate">>
    ELSE IF Words(t) < 5 THEN <<30, "surface">>
    ELSE <<50, "moderate">>

\* (defensibility score in hundredths, depth indicator)
evaluate_defensibility(t) ==
    IF HasMetrics(t) THEN <<90, "deep">>
    ELSE IF HasSpecificActions(t) /\ ~IsVague(t) THEN <<70, "moderate">>
    ELSE IF IsVague(t) \/ Words(t) < 5 THEN <<30, "surface">>
    ELSE <<50, "moderate">>

assess_consistency_risk(t, defensibility_score) ==
    IF defensibility_score < 40 THEN Some("high")
    ELSE IF defensibility_score < 60 THEN Some("medium")
    ELSE None

ResumeClaim(text, type, score, depth, risk, evidence) ==
    [claim_text |-> text, claim_type |-> type, defensibility_score |-> score,
     depth_indicator |-> depth, consistency_risk |-> risk, supporting_evidence |-> evidence]

create_claim_from_text(t, claim_type) ==
    LET d == evaluate_defensibility(t)
    IN  ResumeClaim(t, claim_type, d[1], d[2], assess_consistency_risk(t, d[1]),
                    SupportingEvidence(t))

\* the claims one work-experience entry contributes: its achievements, then
\* the fragments of its description longer than 10 characters
JobClaims(job) ==
    [i \in DOMAIN job.achievements |-> create_claim_from_text(job.achievements[i], "achievement")]
    \o LET bullets == SelectSeq(job.description, LAMBDA b : Chars(b) > 10)
       IN  [i \in DOMAIN bullets |-> create_claim_from_text(bullets[i], "achievement")]

extract_resume_claims(r) ==
    LET claims == Flatten([i \in DOMAIN r.work_experience |-> JobClaims(r.work_experience[i])])
        top_skills == Prefix(r.skills, 5)
    IN  IF claims = <<>> /\ r.skills # <<>>
        THEN [i \in DOMAIN top_skills |->
                 ResumeClaim(<<"Proficient in", top_skills[i]>>, "skill", 50, "surface",
                             Some("medium"), <<>>)]
        ELSE claims

\* claim_text[:n]; the texts of the skill claims are shorter than every cut
ClaimPrefix(claim, n) ==
    IF claim.claim_type = "skill" THEN claim.claim_text ELSE Truncate(claim.claim_text, n)

Question(type, likelihood, claim, text) ==
    [question |-> text, likelihood |-> likelihood, question_type |-> type,
     related_claim |-> ClaimPrefix(claim, 100)]

ClaimQuestions(claim) ==
    IF claim.consistency_risk \in {Some("high"), Some("medium")}
    THEN <<Question("resume_deep_dive",
                    IF claim.consistency_risk = Some("high") THEN 80 ELSE 60, claim,
                    <<"Can you explain how you achieved", ClaimPrefix(claim, 50)>>)>>
         \o (IF claim.defensibility_score < 50
             THEN <<Question("behavioral", 70, claim,
                             <<"What challenges did you face while working on this?">>)>>
             ELSE <<>>)
         \o (IF claim.supporting_evidence = <<>>
             THEN <<Question("situational", 70, claim,
                             <<"How did you measure the success of this achievement?">>)>>
             ELSE <<>>)
    ELSE <<>>

\* variant: the list is returned without the cut
predict_interview_questions_Uncapped(claims) ==
    Flatten([i \in DOMAIN claims |-> ClaimQuestions(claims[i])])

predict_interview_questions(claims) ==
    Prefix(Flatten([i \in DOMAIN claims |-> ClaimQuestions(claims[i])]), 10)

ConsistencyRisk(type, severity, description, related_claim) ==
    [risk_type |-> type, severity |-> severity, description |-> description,
     related_claim |-> related_claim]

\* the text of a job that the skill check searches
JobMentions(job, skill_lower) ==
    \/ \E i \in DOMAIN job.description : Mentions(skill_lower, job.description[i])
    \/ \E i \in DOMAIN job.achievements : Mentions(skill_lower, job.achievements[i])

ClaimIsBroad(claim) == claim.claim_type # "skill" /\ HasBroadIndicator(claim.claim_text)

\* variant: the least defensible claims are rated critical
VagueClaimSeverity_Critical(claim) ==
    IF claim.defensibility_score < 40 THEN "critical" ELSE "medium"

VagueClaimSeverity(claim) ==
    IF claim.defensibility_score < 40 THEN "high" ELSE "medium"

identify_consistency_risks(r, claims, order) ==
    LET skills_in_resume == {Lower(r.skills[i]) : i \in DOMAIN r.skills}
        skills_in_experience ==
            {k \in skills_in_resume :
                \E i \in DOMAIN r.work_experience : JobMentions(r.work_experience[i], k)}
        unused_skills == skills_in_resume \ skills_in_experience
        vague == SelectSeq(claims, LAMBDA c : c.supporting_evidence = <<>>
                                              /\ c.defensibility_score < 50)
        broad == SelectSeq(claims, LAMBDA c : ClaimIsBroad(c) /\ c.supporting_evidence = <<>>)
    IN  (IF unused_skills # {}
         THEN <<ConsistencyRisk("skill_depth_mismatch", "medium",
                                <<"Skills listed but not mentioned in work experience",
                                  Prefix(ListOfSet(unused_skills, order), 3)>>,
                                None)>>
         ELSE <<>>)
        \o [i \in DOMAIN vague |->
               ConsistencyRisk("vague_claim", VagueClaimSeverity(vague[i]),
                               <<"Claim lacks specific evidence", ClaimPrefix(vague[i], 60)>>,
                               Some(ClaimPrefix(vague[i], 100)))]
        \o [i \in DOMAIN broad |->
               ConsistencyRisk("overstated_achievement", "medium",
                               <<"Broad impact statement without metrics",
                                 ClaimPrefix(broad[i], 60)>>,
                               Some(ClaimPrefix(broad[i], 100)))]

ClaimDeduction(claim) ==
    (IF claim.consistency_risk = Some("high") THEN 800
     ELSE IF claim.consistency_risk = Some("medium") THEN 400 ELSE 0)
    + (IF claim.defensibility_score < 40 THEN 500
       ELSE IF claim.defensibility_score < 60 THEN 200 ELSE 0)

RiskDeduction(risk) ==
    CASE risk.severity = "high" -> 1000
      [] risk.severity = "medium" -> 500
      [] risk.severity = "low" -> 200
      [] OTHER -> 0

\* the readiness score before the clamp to [0,100]
ReadinessRawScore(claims, risks) ==
    FullScore
    - SumSeq([i \in DOMAIN claims |-> ClaimDeduction(claims[i])])
    - SumSeq([i \in DOMAIN risks |-> RiskDeduction(risks[i])])

compute_readiness_score(claims, risks) ==
    Max(0, Min(FullScore, ReadinessRawScore(claims, risks)))

InterviewReadinessEvaluator_evaluate(r, fv, order) ==
    LET claims == extract_resume_claims(r)
        risks == identify_consistency_risks(r, claims, order)
    IN  [resume_claims |-> claims,
         predicted_questions |-> predict_interview_questions(claims),
         consistency_risks |-> risks,
         readiness_score |-> compute_readiness_score(claims, risks)]

\* InterviewReadinessEvaluator.evaluate on the parsed resume
EvaluateInterview ==
    /\ pc = "interview"
    /\ interview_result' =
          Some(InterviewReadinessEvaluator_evaluate(resume, Get(features), hash_order))
    /\ pc' = "aggregate"
    /\ UNCHANGED <<resume, jd, features, ats_result, recruiter_result,
                   hash_order, first_outputs, agg_vars, orch_vars, expl_vars>>

-----------------------------------------------------------------------------
(* SignalCompoundingEngine *)

SeverityCount(items, sev) == Cardinality({i \in DOMAIN items : items[i].severity = sev})

SignalImpact(signal, stages, effect) ==
    [signal |-> signal, stages_affected |-> stages, compound_effect |-> effect]

\* variant: the weak band ends at 40 instead of 50
analyze_ats_influence_WeakBelow40(ats, rec) ==
    LET ats_score == ats.compatibility_score IN
    IF ats_score >= 8000
    THEN SignalImpact(<<"Strong ATS compatibility">>, <<"ats", "recruiter">>, 5000)
    ELSE IF ats_score < 4000
    THEN SignalImpact(<<"Weak ATS compatibility">>, <<"ats", "recruiter">>, -15000)
    ELSE SignalImpact(<<"Moderate ATS compatibility">>, <<"ats", "recruiter">>, -5000)

analyze_ats_influence(ats, rec) ==
    LET ats_score == ats.compatibility_score IN
    IF ats_score >= 8000
    THEN SignalImpact(<<"Strong ATS compatibility">>, <<"ats", "recruiter">>, 5000)
    ELSE IF ats_score < 5000
    THEN SignalImpact(<<"Weak ATS compatibility">>, <<"ats", "recruiter">>, -15000)
    ELSE SignalImpact(<<"Moderate ATS compatibility">>, <<"ats", "recruiter">>, -5000)

\* variant: the readiness score is looked at before the high-severity risks
analyze_interview_dominance_ScoreFirst(int) ==
    LET readiness_score == int.readiness_score
        high_risk_count == SeverityCount(int.consistency_risks, "high")
        critical_risk_count == SeverityCount(int.consistency_risks, "critical")
        stages == <<"interview", "offer">>
    IN  IF critical_risk_count > 0
        THEN Some(SignalImpact(<<"Critical interview consistency risks detected">>, stages, -40000))
        ELSE IF readiness_score < 5000
        THEN Some(SignalImpact(<<"Low interview readiness score">>, stages, -20000))
        ELSE IF readiness_score >= 8000
        THEN Some(SignalImpact(<<"High interview readiness score">>, stages, 10000))
        ELSE IF high_risk_count >= 2
        THEN Some(SignalImpact(<<"Multiple high-severity interview consistency risks">>, stages, -25000))
        ELSE IF high_risk_count = 1
        THEN Some(SignalImpact(<<"High-severity interview consistency risk detected">>, stages, -15000))
        ELSE None

analyze_interview_dominance(int) ==
    LET readiness_score == int.readiness_score
        high_risk_count == SeverityCount(int.consistency_risks, "high")
        critical_risk_count == SeverityCount(int.consistency_risks, "critical")
        stages == <<"interview", "offer">>
    IN  IF critical_risk_count > 0
        THEN Some(SignalImpact(<<"Critical interview consistency risks detected">>, stages, -40000))
        ELSE IF high_risk_count >= 2
        THEN Some(SignalImpact(<<"Multiple high-severity interview consistency risks">>, stages, -25000))
        ELSE IF high_risk_count = 1
        THEN Some(SignalImpact(<<"High-severity interview consistency risk detected">>, stages, -15000))
        ELSE IF readiness_score < 5000
        THEN Some(SignalImpact(<<"Low interview readiness score">>, stages, -20000))
        ELSE IF readiness_score >= 8000
        THEN Some(SignalImpact(<<"High interview readiness score">>, stages, 10000))
        ELSE None

RECURSIVE RisksOfSeverity(_, _, _, _)
RisksOfSeverity(items, sev, label, field) ==
    IF items = <<>> THEN <<>>
    ELSE (IF Head(items).severity = sev THEN <<<<label, Head(items)[field]>>>> ELSE <<>>)
         \o RisksOfSeverity(Tail(items), sev, label, field)

\* variant: only the interview risks are collected as high risks
HighRisks_InterviewOnly(rec, int) ==
    RisksOfSeverity(int.consistency_risks, "high", "Interview risk", "risk_type")

\* high_risks: the high red flags, then the high consistency risks
HighRisks(rec, int) ==
    RisksOfSeverity(rec.red_flags, "high", "Recruiter red flag", "type")
    \o RisksOfSeverity(int.consistency_risks, "high", "Interview risk", "risk_type")

analyze_risk_compounding(ats, rec, int) ==
    LET critical_risks ==
            (IF ats.compatibility_score < 4000
             THEN <<<<"ATS compatibility score below 40">>>> ELSE <<>>)
            \o RisksOfSeverity(rec.red_flags, "critical", "Recruiter red flag", "type")
            \o RisksOfSeverity(int.consistency_risks, "critical", "Interview risk", "risk_type")
        high_risks == HighRisks(rec, int)
        medium_risks ==
            RisksOfSeverity(int.consistency_risks, "medium", "Interview risk", "risk_type")
    IN  (IF critical_risks # <<>>
         THEN <<SignalImpact(<<"Critical risks detected", Prefix(critical_risks, 2)>>,
                             <<"ats", "recruiter", "interview", "offer">>, -35000)>>
         ELSE <<>>)
        \o
        (IF Len(medium_risks) >= 3
         THEN <<SignalImpact(<<"Multiple medium risks compound to high overall risk",
                               Len(medium_risks)>>,
                             <<"recruiter", "interview", "offer">>, -20000)>>
         ELSE <<>>)
        \o
        (IF Len(high_risks) >= 2
         THEN <<SignalImpact(<<"Multiple high-severity risks compound", Len(high_risks)>>,
                             <<"recruiter", "interview", "offer">>, -25000)>>
         ELSE <<>>)

SignalCompoundingEngine_apply(ats, rec, int) ==
    LET ats_impact == analyze_ats_influence(ats, rec)
        interview_impact == analyze_interview_dominance(int)
        risk_impacts == analyze_risk_compounding(ats, rec, int)
        ats_positive == ats_impact.compound_effect # 0 /\ ats_impact.compound_effect > 0
        int_negative == /\ ~IsNone(interview_impact)
                        /\ Get(interview_impact).compound_effect # 0
                        /\ Get(interview_impact).compound_effect < 0
    IN  [positive_signals |->
            (IF ats_positive THEN <<ats_impact>> ELSE <<>>)
            \o (IF ~IsNone(interview_impact) /\ ~int_negative THEN interview_impact ELSE <<>>),
         negative_signals |->
            (IF ats_positive THEN <<>> ELSE <<ats_impact>>)
            \o (IF int_negative THEN interview_impact ELSE <<>>)
            \o risk_impacts]

-----------------------------------------------------------------------------
(* ScoreAggregator *)

StageProbabilities(a, r, i, o) ==
    [ats_pass |-> a, recruiter_pass |-> r, interview_pass |-> i, offer |-> o]

\* max(0.0, min(1.0, score / 100.0))
ScoreToProbability(score) == Max(0, Min(PUnit, score * 10))

\* variant: the upper piece starts at interview_pass = 0.5
BaseOffer_HighPieceFromHalf(interview_pass) ==
    LET raw == IF interview_pass >= 50000
               THEN 70000 + ((interview_pass - 50000) * 4) \div 10
               ELSE interview_pass \div 2
    IN  Max(0, Min(PUnit, raw))

\* 0.7 + (interview_pass - 0.5) * 0.4   or   interview_pass * 0.5, then clamped
BaseOffer(interview_pass) ==
    LET raw == IF interview_pass > 50000
               THEN 70000 + ((interview_pass - 50000) * 4) \div 10
               ELSE interview_pass \div 2
    IN  Max(0, Min(PUnit, raw))

calculate_base_probabilities(ats, rec, int) ==
    LET ip == ScoreToProbability(int.readiness_score)
    IN  StageProbabilities(ScoreToProbability(ats.compatibility_score),
                           ScoreToProbability(rec.evaluation_score),
                           ip,
                           BaseOffer(ip))

\* min(1.0, p + effect): one application of a positive signal to one stage
AddPositive(p, effect) == Min(PUnit, p + effect)

\* variant: the negative loop adds the effect without the max(0.0, ...)
AddNegative_Unclamped(p, effect) == p + effect

\* max(0.0, p + effect): one application of a negative signal to one stage
AddNegative(p, effect) == Max(0, p + effect)

\* which stage probabilities a signal names
Affects(signal, stage) == InSeq(stage, signal.stages_affected)

\* body of one iteration of "for signal in signal_summary.positive_signals"
ApplyPositive(p, signal) ==
    IF signal.compound_effect = 0 THEN p
    ELSE LET e == signal.compound_effect
         IN  [p EXCEPT
                !.recruiter_pass = IF Affects(signal, "recruiter") THEN AddPositive(@, e) ELSE @,
                !.interview_pass = IF Affects(signal, "interview") THEN AddPositive(@, e) ELSE @,
                !.offer          = IF Affects(signal, "offer") THEN AddPositive(@, e) ELSE @]

\* body of one iteration of "for signal in signal_summary.negative_signals"
ApplyNegative(p, signal) ==
    IF signal.compound_effect = 0 THEN p
    ELSE LET e == signal.compound_effect
         IN  [p EXCEPT
                !.recruiter_pass = IF Affects(signal, "recruiter") THEN AddNegative(@, e) ELSE @,
                !.interview_pass = IF Affects(signal, "interview") THEN AddNegative(@, e) ELSE @,
                !.offer          = IF Affects(signal, "offer") THEN AddNegative(@, e) ELSE @]

\* variant: the three caps taken in the reverse order (offer first)
FunnelCaps_Reversed(p) ==
    LET o == Min(p.offer, p.interview_pass)
        i == Min(p.interview_pass, p.recruiter_pass)
        r == Min(p.recruiter_pass, p.ats_pass)
    IN  StageProbabilities(p.ats_pass, r, i, o)

\* the three funnel caps at the end of _apply_compounding_effects
FunnelCaps(p) ==
    LET r == Min(p.recruiter_pass, p.ats_pass)
        i == Min(p.interview_pass, r)
        o == Min(p.offer, i)
    IN  StageProbabilities(p.ats_pass, r, i, o)

RiskFactor(factor, stage, impact, severity, description) ==
    [factor |-> factor, stage |-> stage, impact_on_overall_probability |-> impact,
     severity |-> severity, description |-> description]

\* f"{score:.1f}" of a score held in hundredths, as tenths (no score of the
\* model ends in 5 hundredths, where the binary value would decide)
FormatOneDecimal(score) ==
    LET q == score \div 10
        r == score % 10
    IN  IF r < 5 THEN q ELSE IF r > 5 THEN q + 1 ELSE IF q % 2 = 0 THEN q ELSE q + 1

\* severity_to_impact of the red-flag loop, in units of 0.00001
RedFlagImpact(severity) ==
    CASE severity = "critical" -> -25000
      [] severity = "high" -> -15000
      [] severity = "medium" -> -8000
      [] severity = "low" -> -3000
      [] OTHER -> -5000

\* severity_to_impact of the consistency-risk loop
ConsistencyRiskImpact(severity) ==
    CASE severity = "critical" -> -30000
      [] severity = "high" -> -20000
      [] severity = "medium" -> -10000
      [] severity = "low" -> -5000
      [] OTHER -> -10000

\* compound_effect * 0.8
SignalRiskImpact(signal) == (signal.compound_effect * 8) \div 10

Abs(x) == IF x < 0 THEN -x ELSE x

\* the risk factors in the order _rank_risk_factors appends them
CollectRiskFactors(ats, rec, int, summary) ==
    LET signals == SelectSeq(summary.negative_signals, LAMBDA g : g.compound_effect # 0)
    IN  (IF ats.compatibility_score < 5000
         THEN <<RiskFactor(<<"Low ATS compatibility score">>, <<"ats">>,
                           -((5000 - ats.compatibility_score) * 3),
                           IF ats.compatibility_score < 4000 THEN "high" ELSE "medium",
                           <<"ATS compatibility score is",
                             FormatOneDecimal(ats.compatibility_score)>>)>>
         ELSE <<>>)
        \o [i \in DOMAIN rec.red_flags |->
               RiskFactor(<<rec.red_flags[i].type>>, <<"recruiter">>,
                          RedFlagImpact(rec.red_flags[i].severity),
                          rec.red_flags[i].severity, rec.red_flags[i].description)]
        \o [i \in DOMAIN int.consistency_risks |->
               RiskFactor(<<int.consistency_risks[i].risk_type>>, <<"interview">>,
                          ConsistencyRiskImpact(int.consistency_risks[i].severity),
                          int.consistency_risks[i].severity,
                          int.consistency_risks[i].description)]
        \o [i \in DOMAIN signals |->
               RiskFactor(signals[i].signal, signals[i].stages_affected,
                          SignalRiskImpact(signals[i]),
                          IF Abs(SignalRiskImpact(signals[i])) > 15000 THEN "high" ELSE "medium",
                          <<"Signal compounding effect", signals[i].signal>>)]

\* variant: a factor is placed before the factors of equal impact
RECURSIVE InsertByImpact_BeforeEqual(_, _)
InsertByImpact_BeforeEqual(sorted, x) ==
    IF sorted = <<>> THEN <<x>>
    ELSE IF x.impact_on_overall_probability <= Head(sorted).impact_on_overall_probability
    THEN <<x>> \o sorted
    ELSE <<Head(sorted)>> \o InsertByImpact_BeforeEqual(Tail(sorted), x)

\* where list.sort(key=impact) leaves x among the factors before it: after
\* every factor of smaller or equal impact
RECURSIVE InsertByImpact(_, _)
InsertByImpact(sorted, x) ==
    IF sorted = <<>> THEN <<x>>
    ELSE IF x.impact_on_overall_probability < Head(sorted).impact_on_overall_probability
    THEN <<x>> \o sorted
    ELSE <<Head(sorted)>> \o InsertByImpact(Tail(sorted), x)

\* risk_factors.sort(key=lambda x: x.impact_on_overall_probability)
RECURSIVE SortByImpact(_)
SortByImpact(factors) ==
    IF factors = <<>> THEN <<>>
    ELSE InsertByImpact(SortByImpact(SubSeq(factors, 1, Len(factors) - 1)),
                        factors[Len(factors)])

rank_risk_factors(ats, rec, int, summary) ==
    SortByImpact(CollectRiskFactors(ats, rec, int, summary))

\* variant: the ATS score weighs 40% and the interview score 30%
compute_overall_score_WeightsSwapped(ats, rec, int) ==
    LET overall == 4 * ats.compatibility_score + 3 * rec.evaluation_score
                   + 3 * int.readiness_score
    IN  RoundCandidates(Max(0, Min(10 * FullScore, overall)), 10)

\* round(max(0.0, min(100.0, overall)), 2), as the set of values the rounding
\* can give; the weighted sum is held in thousandths of a point
compute_overall_score(ats, rec, int) ==
    LET overall == 3 * ats.compatibility_score + 3 * rec.evaluation_score
                   + 4 * int.readiness_score
    IN  RoundCandidates(Max(0, Min(10 * FullScore, overall)), 10)

ComponentContributions(a, r, i) ==
    [ats_contribution |-> a, recruiter_contribution |-> r, interview_contribution |-> i]

\* round(score * weight, 2) for each stage, not clamped
compute_component_contributions(ats, rec, int) ==
    {ComponentContributions(a, r, i) :
        a \in RoundCandidates(3 * ats.compatibility_score, 10),
        r \in RoundCandidates(3 * rec.evaluation_score, 10),
        i \in RoundCandidates(4 * int.readiness_score, 10)}

\* where the two signal loops stand: the loop and index of the next iteration
LoopPosition(phase, idx, summary) ==
    IF phase = "positive" /\ idx <= Len(summary.positive_signals)
    THEN <<"positive", idx>>
    ELSE IF phase = "positive"
    THEN (IF Len(summary.negative_signals) >= 1 THEN <<"negative", 1>> ELSE <<"caps", 1>>)
    ELSE IF idx <= Len(summary.negative_signals)
    THEN <<"negative", idx>>
    ELSE <<"caps", 1>>

\* aggregate(), steps 1 and 2, and the copy of the base probabilities
AggregateBegin ==
    /\ pc = "aggregate"
    /\ LET ats == Get(ats_result)
           rec == Get(recruiter_result)
           int == Get(interview_result)
           summary == SignalCompoundingEngine_apply(ats, rec, int)
           pos == LoopPosition("positive", 1, summary)
       IN  /\ signal_summary' = Some(summary)
           /\ adjusted' = Some(calculate_base_probabilities(ats, rec, int))
           /\ pc' = pos[1]
           /\ sig_idx' = pos[2]
    /\ UNCHANGED <<resume, jd, features, ats_result, recruiter_result, interview_result,
                   hash_order, first_outputs, aggregated_score, orch_vars, expl_vars>>

\* one iteration of "for signal in signal_summary.positive_signals"
ApplyPositiveSignal ==
    /\ pc = "positive"
    /\ LET summary == Get(signal_summary)
           pos == LoopPosition("positive", sig_idx + 1, summary)
       IN  /\ adjusted' = Some(ApplyPositive(Get(adjusted),
                                             summary.positive_signals[sig_idx]))
           /\ pc' = pos[1]
           /\ sig_idx' = pos[2]
    /\ UNCHANGED <<resume, jd, features, ats_result, recruiter_result, interview_result,
                   hash_order, first_outputs, signal_summary, aggregated_score, orch_vars, expl_vars>>

\* one iteration of "for signal in signal_summary.negative_signals"
ApplyNegativeSignal ==
    /\ pc = "negative"
    /\ LET summary == Get(signal_summary)
           pos == LoopPosition("negative", sig_idx + 1, summary)
       IN  /\ adjusted' = Some(ApplyNegative(Get(adjusted),
                                             summary.negative_signals[sig_idx]))
           /\ pc' = pos[1]
           /\ sig_idx' = pos[2]
    /\ UNCHANGED <<resume, jd, features, ats_result, recruiter_result, interview_result,
                   hash_order, first_outputs, signal_summary, aggregated_score, orch_vars, expl_vars>>

\* the funnel caps and the return of aggregate()
AggregateFinish ==
    /\ pc = "caps"
    /\ adjusted' = Some(FunnelCaps(Get(adjusted)))
    /\ \E overall \in compute_overall_score(Get(ats_result), Get(recruiter_result),
                                             Get(interview_result)),
          contributions \in compute_component_contributions(Get(ats_result),
                                                            Get(recruiter_result),
                                                            Get(interview_result)) :
       aggregated_score' =
          Some([stage_probabilities |-> FunnelCaps(Get(adjusted)),
                signal_compounding_summary |-> Get(signal_summary),
                overall_score |-> overall,
                component_contributions |-> contributions,
                risk_factors |-> rank_risk_factors(Get(ats_result), Get(recruiter_result),
                                                   Get(interview_result),
                                                   Get(signal_summary))])
    /\ pc' = "done"
    /\ UNCHANGED <<resume, jd, features, ats_result, recruiter_result, interview_result,
                   hash_order, first_outputs, signal_summary, sig_idx, orch_vars, expl_vars>>

-----------------------------------------------------------------------------
(* Stage results handed directly to ScoreAggregator.aggregate *)

\* red flags of every severity, told apart by their descriptions
FreeRedFlags ==
    {[i \in 1..Len(sevs) |-> [type |-> "flag", severity |-> sevs[i],
                              description |-> <<"red flag", i>>]] :
        sevs \in SeqsUpTo(Severities, MaxRedFlags)}

\* consistency risks of every severity, told apart by their descriptions
FreeConsistencyRisks ==
    {[i \in 1..Len(sevs) |-> [risk_type |-> "risk", severity |-> sevs[i],
                              description |-> <<"consistency risk", i>>]] :
        sevs \in SeqsUpTo(Severities, MaxRisks)}

\* no aggregate() call in progress
AggIdle ==
    /\ signal_summary = None
    /\ adjusted = None
    /\ sig_idx = 1
    /\ aggregated_score = None

-----------------------------------------------------------------------------
(* RecommendationEngine *)

\* impact_score_delta is held in thousandths of a score point,
\* impact_probability_delta in units of 0.00001; the impact text is left out
Recommendation(priority, category, action, reasoning, stage, score, prob, risk) ==
    [priority |-> priority, category |-> category, action |-> action,
     reasoning |-> reasoning, stage_affected |-> stage,
     impact_score_delta |-> score, impact_probability_delta |-> prob,
     referenced_risk |-> risk]

generate_ats_recommendations(ats) ==
    LET pct == ats.keyword_match_percentage IN
    (IF ~ats.required_fields_status.email
     THEN <<Recommendation("high", "formatting", <<"Add email address to resume header">>,
                           <<"ATS requires email field for candidate contact and tracking.">>,
                           "ats", 25000, 25000, <<"Missing required field: email">>)>>
     ELSE <<>>)
    \o (IF ~ats.required_fields_status.phone
        THEN <<Recommendation("high", "formatting", <<"Add phone number to resume header">>,
                              <<"ATS requires phone field for candidate contact and tracking.">>,
                              "ats", 25000, 25000, <<"Missing required field: phone">>)>>
        ELSE <<>>)
    \o (IF ~ats.required_fields_status.work_history
        THEN <<Recommendation("critical", "content_improvement",
                              <<"Add work experience section with at least one job entry">>,
                              <<"ATS systems filter out resumes without work experience.">>,
                              "ats", 30000, 30000, <<"Missing required field: work history">>)>>
        ELSE <<>>)
    \o (IF pct < 6000
        THEN <<Recommendation(IF pct < 4000 THEN "high" ELSE "medium", "keyword_optimization",
                              <<"Incorporate missing keywords naturally",
                                Prefix(ats.keyword_breakdown.missing_keywords, 5)>>,
                              <<"ATS systems rank candidates by keyword match. Missing keywords",
                                Len(ats.keyword_breakdown.missing_keywords)>>,
                              "ats", Min(20000, (7000 - pct) * 5), Min(20000, (7000 - pct) * 10),
                              <<"Low keyword match", FormatOneDecimal(pct)>>)>>
        ELSE <<>>)
    \o (IF Failed(ats.hard_filters.experience_met)
        THEN <<Recommendation("high", "content_improvement",
                              <<"Highlight required skills more prominently">>,
                              <<"ATS hard filters reject candidates without the required skills.">>,
                              "ats", 20000, 20000,
                              <<"Hard filter failed: missing required skills">>)>>
        ELSE <<>>)
    \o (IF Failed(ats.hard_filters.education_met)
        THEN <<Recommendation("high", "content_improvement",
                              <<"Ensure education section clearly states required degree level">>,
                              <<"ATS hard filters reject candidates without the required education.">>,
                              "ats", 15000, 15000,
                              <<"Hard filter failed: missing required education">>)>>
        ELSE <<>>)

\* the recommendation for one red flag, if its type has one
RedFlagRecommendation(red_flag) ==
    LET high == red_flag.severity = "high" IN
    CASE red_flag.type = "job_hopping" ->
            <<Recommendation(IF high THEN "high" ELSE "medium", "gap_explanation",
                             <<"Add brief explanation for short tenures or job changes">>,
                             red_flag.description, "recruiter",
                             IF high THEN 10000 ELSE 5000, IF high THEN 10000 ELSE 5000,
                             <<red_flag.type>>)>>
      [] red_flag.type = "employment_gap" ->
            <<Recommendation("medium", "gap_explanation",
                             <<"Add brief explanation for employment gap">>,
                             red_flag.description, "recruiter", 8000, 8000, <<red_flag.type>>)>>
      [] red_flag.type = "generic_resume" ->
            <<Recommendation("medium", "achievement_enhancement",
                             <<"Add specific, quantifiable achievements with metrics">>,
                             red_flag.description, "recruiter", 12000, 12000,
                             <<red_flag.type>>)>>
      [] red_flag.type = "formatting_issues" ->
            <<Recommendation("low", "formatting", <<"Condense resume to 1-2 pages">>,
                             red_flag.description, "recruiter", 3000, 3000, <<red_flag.type>>)>>
      [] OTHER -> <<>>

generate_recruiter_recommendations(rec) ==
    Flatten([i \in DOMAIN rec.red_flags |-> RedFlagRecommendation(rec.red_flags[i])])

\* risk.related_claim[:50] if risk.related_claim else 'claim'
RelatedClaimPrefix(risk, n) ==
    IF IsNone(risk.related_claim) THEN "claim" ELSE Truncate(Get(risk.related_claim), n)

\* the recommendation for one consistency risk, if its type has one
ConsistencyRiskRecommendation(risk) ==
    LET high == risk.severity = "high" IN
    CASE risk.risk_type = "vague_claim" ->
            <<Recommendation(IF high THEN "high" ELSE "medium", "achievement_enhancement",
                             <<"Add specific details and metrics to support claim",
                               RelatedClaimPrefix(risk, 50)>>,
                             risk.description, "interview",
                             IF high THEN 15000 ELSE 8000, IF high THEN 15000 ELSE 8000,
                             <<risk.risk_type>>)>>
      [] risk.risk_type = "overstated_achievement" ->
            <<Recommendation("high", "achievement_enhancement",
                             <<"Add quantifiable metrics to support impact statement">>,
                             risk.description, "interview", 12000, 12000, <<risk.risk_type>>)>>
      [] risk.risk_type = "skill_depth_mismatch" ->
            <<Recommendation("medium", "skill_addition",
                             <<"Demonstrate listed skills in work experience descriptions",
                               risk.description[2]>>,
                             risk.description, "interview", 10000, 10000, <<risk.risk_type>>)>>
      [] risk.risk_type = "missing_context" ->
            <<Recommendation("medium", "content_improvement", <<"Add context to claims">>,
                             risk.description, "interview", 8000, 8000, <<risk.risk_type>>)>>
      [] OTHER -> <<>>

generate_interview_recommendations(int) ==
    Flatten([i \in DOMAIN int.consistency_risks |->
                ConsistencyRiskRecommendation(int.consistency_risks[i])])

\* the recommendation for one aggregated risk factor that no earlier
\* recommendation references and whose impact is at least 0.10
RiskFactorRecommendation(risk_factor, existing) ==
    IF \E i \in DOMAIN existing : existing[i].referenced_risk = risk_factor.factor
    THEN <<>>
    ELSE IF Abs(risk_factor.impact_on_overall_probability) < 10000
    THEN <<>>
    ELSE <<Recommendation(IF risk_factor.severity \in {"critical", "high"} THEN "high"
                          ELSE "medium",
                          "content_improvement",
                          <<"Address to improve overall hiring probability", risk_factor.factor>>,
                          risk_factor.description,
                          IF Len(risk_factor.stage) = 1 THEN risk_factor.stage[1] ELSE "overall",
                          Abs(risk_factor.impact_on_overall_probability),
                          Abs(risk_factor.impact_on_overall_probability),
                          risk_factor.factor)>>

generate_aggregated_recommendations(agg, existing) ==
    Flatten([i \in DOMAIN agg.risk_factors |->
                RiskFactorRecommendation(agg.risk_factors[i], existing)])

\* the recommendations in generation order, before the ranking
GenerateAll(ats, rec, int, agg) ==
    LET staged == generate_ats_recommendations(ats)
                  \o generate_recruiter_recommendations(rec)
                  \o generate_interview_recommendations(int)
    IN  staged \o generate_aggregated_recommendations(agg, staged)

\* priority_order.get(rec.priority, 3)
PriorityScore(priority) ==
    CASE priority = "critical" -> 0
      [] priority = "high" -> 1
      [] priority = "medium" -> 2
      [] OTHER -> 3

\* variant: the key is the priority alone
KeyLess_PriorityOnly(a, b) == PriorityScore(a.priority) < PriorityScore(b.priority)

\* sort_key(a) < sort_key(b) for the key (priority_score, -impact_score)
KeyLess(a, b) ==
    \/ PriorityScore(a.priority) < PriorityScore(b.priority)
    \/ /\ PriorityScore(a.priority) = PriorityScore(b.priority)
       /\ -Abs(a.impact_score_delta) < -Abs(b.impact_score_delta)

\* where sorted() leaves x among the recommendations before it
RECURSIVE InsertByKey(_, _)
InsertByKey(sorted, x) ==
    IF sorted = <<>> THEN <<x>>
    ELSE IF KeyLess(x, Head(sorted)) THEN <<x>> \o sorted
    ELSE <<Head(sorted)>> \o InsertByKey(Tail(sorted), x)

RECURSIVE rank_recommendations(_)
rank_recommendations(recs) ==
    IF recs = <<>> THEN <<>>
    ELSE InsertByKey(rank_recommendations(SubSeq(recs, 1, Len(recs) - 1)), recs[Len(recs)])

RecommendationEngine_generate(ats, rec, int, agg) ==
    rank_recommendations(GenerateAll(ats, rec, int, agg))

\* no generate() call has returned
ExplIdle ==
    /\ recommendations = None
    /\ counterfactuals = None

\* RecommendationEngine.generate on the stage results and the aggregated score
Recommend ==
    /\ pc = "done"
    /\ recommendations' = Some(RecommendationEngine_generate(
                                   Get(ats_result), Get(recruiter_result),
                                   Get(interview_result), Get(aggregated_score)))
    /\ pc' = "recommended"
    /\ UNCHANGED <<resume, jd, features, ats_result, recruiter_result, interview_result,
                   hash_order, first_outputs, agg_vars, orch_vars, counterfactuals>>

-----------------------------------------------------------------------------
(* ExplainabilityEngine *)

CounterfactualImpact(score_delta, probability_delta, stage_impacts) ==
    [score_delta |-> score_delta, probability_delta |-> probability_delta,
     stage_impacts |-> stage_impacts]

\* the scenario appended for one recommendation; stage_impacts is the dict as
\* a list of (stage, delta) items. expected_score and expected_probability are
\* locals of the loop body that no field of the scenario receives
CounterfactualScenario(rec) ==
    [scenario |-> <<"If you", rec.action>>,
     change_description |-> rec.action,
     expected_impact |->
        CounterfactualImpact(rec.impact_score_delta, rec.impact_probability_delta,
                             IF rec.stage_affected \in {"ats", "recruiter", "interview", "overall"}
                             THEN <<<<rec.stage_affected, rec.impact_score_delta>>>>
                             ELSE <<>>),
     referenced_factors |-> IF rec.referenced_risk # <<>> THEN <<rec.referenced_risk>> ELSE <<>>]

TopRecommendations(recs) ==
    Prefix(SelectSeq(recs, LAMBDA rec : rec.priority \in {"critical", "high"}), 3)

generate_counterfactuals(agg, recs) ==
    LET with_deltas == SelectSeq(TopRecommendations(recs),
                                 LAMBDA rec : rec.impact_score_delta # 0
                                              /\ rec.impact_probability_delta # 0)
    IN  [i \in DOMAIN with_deltas |-> CounterfactualScenario(with_deltas[i])]

\* ExplainabilityEngine.explain on the stage results and the aggregated score;
\* the stage explanations of the artifact are texts and are left out
Explain ==
    /\ pc = "done"
    /\ LET recs == RecommendationEngine_generate(Get(ats_result), Get(recruiter_result),
                                                Get(interview_result), Get(aggregated_score))
       IN  /\ recommendations' = Some(recs)
           /\ counterfactuals' = Some(generate_counterfactuals(Get(aggregated_score), recs))
    /\ pc' = "explained"
    /\ UNCHANGED <<resume, jd, features, ats_result, recruiter_result, interview_result,
                   hash_order, first_outputs, agg_vars, orch_vars>>

-----------------------------------------------------------------------------
(* AnalysisContext and AnalysisOrchestrator *)

MaxClock == 1         \* ticks of the wall clock during the runs

Contexts == {"ctx_a", "ctx_b"}

StageOrder == <<"parsing", "feature_extraction", "ats_simulation", "recruiter_evaluation",
                "interview_readiness", "scoring", "explainability">>

Stages == {StageOrder[i] : i \in DOMAIN StageOrder}

\* a stage method either returns or raises an Exception (the try / except of run)
StageOutcomes == {"ok", "fault"}

\* the context field a stage method fills in
ResultField(stage) ==
    CASE stage = "parsing"              -> "parsed_resume"
      [] stage = "feature_extraction"   -> "feature_vector"
      [] stage = "ats_simulation"       -> "ats_result"
      [] stage = "recruiter_evaluation" -> "recruiter_result"
      [] stage = "interview_readiness"  -> "interview_result"
      [] stage = "scoring"              -> "aggregated_score"
      [] stage = "explainability"       -> "explainability_artifact"

\* d[k] = v on a dict
DictSet(d, k, v) == (k :> v) @@ d

EmptyDict == <<>>

\* AnalysisContext(...) as constructed: every field at its dataclass default
NewContext(v, c) == v[c] = EmptyDict

\* variant: every context shares one stage_statuses dict
SetStatus_SharedDict(c, stage, status) ==
    [d \in Contexts |-> DictSet(stage_statuses[d], stage, status)]

\* context.stage_statuses[stage_name] = status
SetStatus(c, stage, status) ==
    [stage_statuses EXCEPT ![c] = DictSet(@, stage, status)]

\* variant: the timing is recorded inside the try block, after a success only
SetTiming_OnlyOnSuccess(c, stage, duration) ==
    IF stage_statuses[c][stage] = "success"
    THEN [stage_timings EXCEPT ![c] = DictSet(@, stage, duration)]
    ELSE stage_timings

\* context.stage_timings[stage_name] = stage_end - stage_start
SetTiming(c, stage, duration) ==
    [stage_timings EXCEPT ![c] = DictSet(@, stage, duration)]

\* a stage method storing its result in the context it was given
WriteResult(c, stage) ==
    [stage_results EXCEPT ![c] = DictSet(@, ResultField(stage), <<c, stage>>)]

\* the status of a stage; a stage without an entry has not been started
StatusOf(c, stage) ==
    IF stage \in DOMAIN stage_statuses[c] THEN stage_statuses[c][stage] ELSE "pending"

CurrentStage(c) == StageOrder[stage_idx[c]]

OrchInit(running) ==
    /\ active = running
    /\ run_pc = [c \in Contexts |-> "call"]
    /\ stage_idx = [c \in Contexts |-> 1]
    /\ start_time = [c \in Contexts |-> None]
    /\ stage_statuses = [c \in Contexts |-> EmptyDict]
    /\ stage_timings = [c \in Contexts |-> EmptyDict]
    /\ stage_results = [c \in Contexts |-> EmptyDict]
    /\ stage_start = [c \in Contexts |-> 0]
    /\ clock = 0
    /\ outcome = [c \in Contexts |-> EmptyDict]
    /\ attempts = [c \in Contexts |-> <<>>]

\* run(): entry, start_time and the stage list
RunEnter(c) ==
    /\ c \in active
    /\ run_pc[c] = "call"
    /\ start_time' = [start_time EXCEPT ![c] = IF IsNone(@) THEN Some(clock) ELSE @]
    /\ stage_idx' = [stage_idx EXCEPT ![c] = 1]
    /\ run_pc' = [run_pc EXCEPT ![c] = "stage_begin"]
    /\ UNCHANGED <<active, stage_statuses, stage_timings, stage_results, stage_start,
                   clock, outcome, attempts, pipe_vars, agg_vars, expl_vars>>

\* stage_start = time.time(); status = "running"
StageBegin(c) ==
    /\ c \in active
    /\ run_pc[c] = "stage_begin"
    /\ stage_start' = [stage_start EXCEPT ![c] = clock]
    /\ stage_statuses' = SetStatus(c, CurrentStage(c), "running")
    /\ run_pc' = [run_pc EXCEPT ![c] = "stage_call"]
    /\ UNCHANGED <<active, stage_idx, start_time, stage_timings, stage_results,
                   clock, outcome, attempts, pipe_vars, agg_vars, expl_vars>>

\* stage_method(context): returns after filling its result field, or raises
StageCall(c) ==
    /\ c \in active
    /\ run_pc[c] = "stage_call"
    /\ \E o \in StageOutcomes :
        /\ outcome' = [outcome EXCEPT ![c] = DictSet(@, CurrentStage(c), o)]
        /\ stage_results' = IF o = "ok" THEN WriteResult(c, CurrentStage(c))
                            ELSE stage_results
    /\ attempts' = [attempts EXCEPT ![c] = Append(@, CurrentStage(c))]
    /\ run_pc' = [run_pc EXCEPT ![c] = "stage_status"]
    /\ UNCHANGED <<active, stage_idx, start_time, stage_statuses, stage_timings,
                   stage_start, clock, pipe_vars, agg_vars, expl_vars>>

\* variant: the except clause records "success" as well
TerminalStatus_AlwaysSuccess(o) == "success"

\* the status recorded for a stage method that returned / that raised
TerminalStatus(o) == IF o = "ok" THEN "success" ELSE "failed"

\* status = "success" after the call, or "failed" in the except clause
StageStatus(c) ==
    /\ c \in active
    /\ run_pc[c] = "stage_status"
    /\ stage_statuses' = SetStatus(c, CurrentStage(c),
                                   TerminalStatus(outcome[c][CurrentStage(c)]))
    /\ run_pc' = [run_pc EXCEPT ![c] = "stage_end"]
    /\ UNCHANGED <<active, stage_idx, start_time, stage_timings, stage_results,
                   stage_start, clock, outcome, attempts, pipe_vars, agg_vars, expl_vars>>

\* variant: a stage that raised ends the run
AfterStage_AbortOnFailure(c) ==
    IF stage_idx[c] < Len(StageOrder) /\ outcome[c][CurrentStage(c)] = "ok"
    THEN <<"stage_begin", stage_idx[c] + 1>>
    ELSE <<"returned", stage_idx[c]>>

\* the position after one iteration of the for loop: next stage or return
AfterStage(c) ==
    IF stage_idx[c] < Len(StageOrder)
    THEN <<"stage_begin", stage_idx[c] + 1>>
    ELSE <<"returned", stage_idx[c]>>

\* stage_end = time.time(); the timing; next iteration or return context
StageEnd(c) ==
    /\ c \in active
    /\ run_pc[c] = "stage_end"
    /\ stage_timings' = SetTiming(c, CurrentStage(c), clock - stage_start[c])
    /\ run_pc' = [run_pc EXCEPT ![c] = AfterStage(c)[1]]
    /\ stage_idx' = [stage_idx EXCEPT ![c] = AfterStage(c)[2]]
    /\ UNCHANGED <<active, start_time, stage_statuses, stage_results, stage_start,
                   clock, outcome, attempts, pipe_vars, agg_vars, expl_vars>>

\* the wall clock advances
Tick ==
    /\ clock < MaxClock
    /\ clock' = clock + 1
    /\ UNCHANGED <<active, run_pc, stage_idx, start_time, stage_statuses, stage_timings,
                   stage_results, stage_start, outcome, attempts, pipe_vars, agg_vars, expl_vars>>

RunStep(c) ==
    \/ RunEnter(c)
    \/ StageBegin(c)
    \/ StageCall(c)
    \/ StageStatus(c)
    \/ StageEnd(c)

\* no evaluator call in progress
PipeIdle ==
    /\ resume = None
    /\ jd = None
    /\ features = None
    /\ ats_result = None
    /\ recruiter_result = None
    /\ interview_result = None
    /\ pc = "idle"
    /\ hash_order = <<>>
    /\ first_outputs = None

-----------------------------------------------------------------------------
(* Specification: the evaluators called in pipeline order on parsed inputs *)

Init ==
    /\ resume \in ParsedResumes
    /\ jd \in ParsedJobDescriptions
    /\ hash_order \in HashOrders
    /\ features = None
    /\ ats_result = None
    /\ recruiter_result = None
    /\ interview_result = None
    /\ pc = "extract"
    /\ first_outputs = None
    /\ AggIdle
    /\ ExplIdle
    /\ OrchInit({})

Next ==
    \/ Extract
    \/ Simulate
    \/ EvaluateRecruiter
    \/ EvaluateInterview

Spec == Init /\ [][Next]_vars

-----------------------------------------------------------------------------
(* Specification: simulate() called on a feature vector of any content *)

\* the fields of FeatureVectorInternal are Optional and default to None
FreeFeatureVectors ==
    {[quantitative |-> [years_experience |-> None, skills_count |-> None,
                        keyword_match_count |-> k, resume_length_words |-> None],
      categorical |-> [has_required_skills |-> s, has_required_degree |-> d],
      missing_features |-> <<>>,
      computation_method |-> EmptyDict] :
        k \in {None, Some(0), Some(1), Some(5)},
        s \in {None, Some(TRUE), Some(FALSE)},
        d \in {None, Some(TRUE), Some(FALSE)}}

\* simulate() reads of the work experience only whether there is any
SimulateResumes == {r \in ParsedResumes : Len(r.work_experience) <= 1}

InitSimulate ==
    /\ resume \in SimulateResumes
    /\ jd \in ParsedJobDescriptions
    /\ features \in {Some(fv) : fv \in FreeFeatureVectors}
    /\ hash_order = <<>>
    /\ ats_result = None
    /\ recruiter_result = None
    /\ interview_result = None
    /\ pc = "simulate"
    /\ first_outputs = None
    /\ AggIdle
    /\ ExplIdle
    /\ OrchInit({})

NextSimulate == Simulate

SpecSimulate == InitSimulate /\ [][NextSimulate]_vars

-----------------------------------------------------------------------------
(* Specification: the recruiter evaluation, on parsed resumes and on free   *)
(* inputs of its score computation                                          *)

MaxScoreFlags == 4    \* critical red flags handed to the score computation

\* career progression and job stability scores in hundredths
RecruiterScores == {0, 30, 49, 50, 100}

ScoreRedFlags ==
    FreeRedFlags
    \cup {[i \in 1..n |-> RedFlag("flag", "critical", <<"red flag", i>>)] : n \in 2..MaxScoreFlags}

\* the result object before step 4 of evaluate, evaluation_score at its default
PartialRecruiterResults ==
    [career_progression_score : RecruiterScores, job_stability_score : RecruiterScores,
     red_flags : ScoreRedFlags, evaluation_score : {0}]

RecruiterResumes ==
    {r \in ParsedResumes : r.email = None /\ r.phone = None /\ r.education = <<>>}

InitRecruiter ==
    /\ \/ /\ resume \in RecruiterResumes
          /\ jd \in ParsedJobDescriptions
          /\ recruiter_result = None
          /\ pc = "extract"
       \/ /\ resume = None
          /\ jd = None
          /\ recruiter_result \in {Some(result) : result \in PartialRecruiterResults}
          /\ pc = "evaluation_score"
    /\ hash_order = <<>>
    /\ features = None
    /\ ats_result = None
    /\ interview_result = None
    /\ first_outputs = None
    /\ AggIdle
    /\ ExplIdle
    /\ OrchInit({})

NextRecruiter ==
    \/ Extract
    \/ Simulate
    \/ EvaluateRecruiter
    \/ ComputeEvaluationScore

SpecRecruiter == InitRecruiter /\ [][NextRecruiter]_vars

-----------------------------------------------------------------------------
(* Specification: the evaluators called a second time on the same inputs,  *)
(* in the same interpreter process or in a new one                         *)

Outputs ==
    [features |-> features, ats_result |-> ats_result,
     recruiter_result |-> recruiter_result, interview_result |-> interview_result]

\* the first outputs are kept aside and the four calls start over
StartOver ==
    /\ pc = "aggregate"
    /\ IsNone(first_outputs)
    /\ first_outputs' = Some(Outputs)
    /\ features' = None
    /\ ats_result' = None
    /\ recruiter_result' = None
    /\ interview_result' = None
    /\ pc' = "extract"
    /\ UNCHANGED <<resume, jd, agg_vars, orch_vars, expl_vars>>

\* the second round of calls is made by the same process
CallAgain == StartOver /\ hash_order' = hash_order

\* the second round of calls is made by a new interpreter process, whose
\* string hash seed is drawn anew
NewProcess == StartOver /\ hash_order' \in HashOrders

NextRepeat ==
    \/ Extract
    \/ Simulate
    \/ EvaluateRecruiter
    \/ EvaluateInterview
    \/ CallAgain
    \/ NewProcess

SpecRepeat == Init /\ [][NextRepeat]_vars

-----------------------------------------------------------------------------
(* Specification: one run() on one context, with the wall clock *)

InitRun == PipeIdle /\ AggIdle /\ ExplIdle /\ OrchInit({"ctx_a"})

NextRun ==
    \/ \E c \in Contexts : RunStep(c)
    \/ Tick

SpecRun == InitRun /\ [][NextRun]_vars

\* run() is sequential code without blocking calls: it keeps taking steps
FairSpecRun == SpecRun /\ \A c \in Contexts : WF_vars(RunStep(c))

(* Specification: two run() calls on two contexts, interleaved step by step *)

InitConcurrent == PipeIdle /\ AggIdle /\ ExplIdle /\ OrchInit(Contexts)

NextConcurrent == \E c \in Contexts : RunStep(c)

SpecConcurrent == InitConcurrent /\ [][NextConcurrent]_vars

-----------------------------------------------------------------------------
(* Specification: the whole analysis of one resume, from the feature      *)
(* extraction to the ranked recommendations                               *)

\* the resumes analysed: a blank e-mail address is left out, it is treated
\* as an absent one by every stage
AnalysisResumes == {r \in ParsedResumes : r.email # Some("  ")}

\* one process: the iteration order of a set of skills is fixed
InitAnalysis ==
    /\ resume \in AnalysisResumes
    /\ jd \in ParsedJobDescriptions
    /\ hash_order = <<"python", "sql">>
    /\ features = None
    /\ ats_result = None
    /\ recruiter_result = None
    /\ interview_result = None
    /\ pc = "extract"
    /\ first_outputs = None
    /\ AggIdle
    /\ ExplIdle
    /\ OrchInit({})

NextAnalysis ==
    \/ Extract
    \/ Simulate
    \/ EvaluateRecruiter
    \/ EvaluateInterview
    \/ AggregateBegin
    \/ ApplyPositiveSignal
    \/ ApplyNegativeSignal
    \/ AggregateFinish
    \/ Recommend
    \/ Explain

SpecAnalysis == InitAnalysis /\ [][NextAnalysis]_vars

-----------------------------------------------------------------------------
(* Specification: SignalCompoundingEngine.apply on stage results whose    *)
(* scores sit on both sides of the thresholds of the rules                *)

MaxSignalRisks == 4   \* consistency risks of an interview result given to apply()

\* the scores next to the thresholds 40, 50 and 80, in hundredths
SignalScores == {3999, 4000, 4999, 5000, 7999, 8000}

SignalConsistencyRisks ==
    {[i \in 1..Len(sevs) |-> [risk_type |-> "risk", severity |-> sevs[i],
                              description |-> <<"consistency risk", i>>]] :
        sevs \in SeqsUpTo(Severities, MaxSignalRisks)}

InitSignals ==
    /\ resume = None
    /\ jd = None
    /\ features = None
    /\ ats_result \in {Some([compatibility_score |-> s]) : s \in SignalScores}
    /\ recruiter_result \in {Some([evaluation_score |-> FullScore \div 2, red_flags |-> f]) :
                                f \in FreeRedFlags}
    /\ interview_result \in {Some([readiness_score |-> s, consistency_risks |-> r]) :
                                s \in SignalScores, r \in SignalConsistencyRisks}
    /\ pc = "signals"
    /\ hash_order = <<>>
    /\ first_outputs = None
    /\ AggIdle
    /\ ExplIdle
    /\ OrchInit({})

\* SignalCompoundingEngine.apply on the three stage results
ApplySignals ==
    /\ pc = "signals"
    /\ signal_summary' = Some(SignalCompoundingEngine_apply(
                                  Get(ats_result), Get(recruiter_result),
                                  Get(interview_result)))
    /\ pc' = "signalled"
    /\ UNCHANGED <<resume, jd, features, ats_result, recruiter_result, interview_result,
                   hash_order, first_outputs, adjusted, sig_idx, aggregated_score,
                   orch_vars, expl_vars>>

NextSignals == ApplySignals

SpecSignals == InitSignals /\ [][NextSignals]_vars

-----------------------------------------------------------------------------
(* Specification: aggregate() on arbitrary stage results *)

InitAgg ==
    /\ resume = None
    /\ jd = None
    /\ features = None
    /\ ats_result \in {Some([compatibility_score |-> s]) : s \in FreeScores}
    /\ recruiter_result \in {Some([evaluation_score |-> s, red_flags |-> f]) :
                                s \in FreeScores, f \in FreeRedFlags}
    /\ interview_result \in {Some([readiness_score |-> s, consistency_risks |-> r]) :
                                s \in FreeScores, r \in FreeConsistencyRisks}
    /\ pc = "aggregate"
    /\ hash_order = <<>>
    /\ first_outputs = None
    /\ AggIdle
    /\ ExplIdle
    /\ OrchInit({})

NextAgg ==
    \/ AggregateBegin
    \/ ApplyPositiveSignal
    \/ ApplyNegativeSignal
    \/ AggregateFinish

SpecAgg == InitAgg /\ [][NextAgg]_vars

-----------------------------------------------------------------------------
(* Properties of aggregate() *)

Probs == Get(adjusted)

InUnit(p) == 0 <= p /\ p <= PUnit

\* C1: the stage probabilities returned by aggregate form a funnel:
\* offer <= interview_pass <= recruiter_pass <= ats_pass.
C1_FunnelInvariant ==
    pc = "done" /\ ~IsNone(aggregated_score) =>
        LET p == Get(aggregated_score).stage_probabilities
        IN  /\ p.offer <= p.interview_pass
            /\ p.interview_pass <= p.recruiter_pass
            /\ p.recruiter_pass <= p.ats_pass

\* aggregate returned after applying a positive and a negative signal, and
\* every one of the three caps lowered a stage probability
C1_Witness ==
    /\ pc = "done" /\ ~IsNone(aggregated_score)
    /\ Get(signal_summary).positive_signals # <<>>
    /\ Get(signal_summary).negative_signals # <<>>
    /\ LET base == calculate_base_probabilities(Get(ats_result), Get(recruiter_result),
                                                Get(interview_result))
           p == Get(aggregated_score).stage_probabilities
       IN  /\ base.recruiter_pass > base.ats_pass
           /\ p.recruiter_pass = p.ats_pass
           /\ p.interview_pass = p.recruiter_pass
           /\ p.offer = p.interview_pass
           /\ p.offer > 0

\* C2: every stage probability is in [0,1] from the base probabilities on:
\* after each signal application and after the funnel caps.
C2_ProbabilitiesInUnitInterval ==
    ~IsNone(adjusted) =>
        /\ InUnit(Probs.ats_pass)
        /\ InUnit(Probs.recruiter_pass)
        /\ InUnit(Probs.interview_pass)
        /\ InUnit(Probs.offer)

\* in the middle of the negative loop a signal has just been floored at 0,
\* after a positive signal had been capped at 1
C2_Witness ==
    /\ pc = "negative" /\ sig_idx > 1
    /\ Get(signal_summary).positive_signals # <<>>
    /\ Probs.recruiter_pass = PUnit
    /\ Probs.offer = 0
    /\ Get(interview_result).readiness_score > 0

-----------------------------------------------------------------------------
(* Properties of AnalysisOrchestrator.run *)

Returned(c) == run_pc[c] = "returned"

Terminal(c, stage) == StatusOf(c, stage) \in {"success", "failed"}

\* C4: run calls the seven stage methods once each in the fixed order,
\* whichever of them raise, and then returns the context.
C4_AllStagesAttemptedInOrder ==
    /\ [](\A c \in active :
            /\ IsPrefixOf(attempts[c], StageOrder)
            /\ (Returned(c) => attempts[c] = StageOrder))
    /\ \A c \in Contexts : \A i \in DOMAIN StageOrder :
            <>(c \in active => InSeq(StageOrder[i], attempts[c]))
    /\ \A c \in Contexts : <>(c \in active => Returned(c))

\* run returned after some stages raised and others did not
C4_Witness ==
    /\ Returned("ctx_a")
    /\ outcome["ctx_a"]["parsing"] = "fault"
    /\ outcome["ctx_a"]["ats_simulation"] = "fault"
    /\ outcome["ctx_a"]["scoring"] = "ok"
    /\ attempts["ctx_a"] = StageOrder

\* the status of every stage as the progress of the run determines it
StatusesConsistent(c) ==
    /\ Cardinality({s \in Stages : StatusOf(c, s) = "running"}) <= 1
    /\ \A i, j \in DOMAIN StageOrder :
            i < j /\ StatusOf(c, StageOrder[j]) # "pending" => Terminal(c, StageOrder[i])
    /\ \A s \in Stages :
            /\ s \in DOMAIN outcome[c] => StatusOf(c, s) # "pending"
            /\ StatusOf(c, s) = "success" => s \in DOMAIN outcome[c] /\ outcome[c][s] = "ok"
            /\ StatusOf(c, s) = "failed" => s \in DOMAIN outcome[c] /\ outcome[c][s] = "fault"
            /\ StatusOf(c, s) = "running" /\ s \in DOMAIN outcome[c] =>
                    run_pc[c] = "stage_status" /\ CurrentStage(c) = s
    /\ run_pc[c] = "stage_call" => StatusOf(c, CurrentStage(c)) = "running"
    /\ Returned(c) => \A s \in Stages : Terminal(c, s)

StatusStepAllowed(c, s) ==
    \/ StatusOf(c, s)' = StatusOf(c, s)
    \/ StatusOf(c, s) = "pending" /\ StatusOf(c, s)' = "running"
    \/ StatusOf(c, s) = "running" /\ StatusOf(c, s)' \in {"success", "failed"}

\* C5: a stage status only moves pending -> running -> success | failed, it
\* is success exactly for a stage method that returned and failed exactly for
\* one that raised, one stage at most is running, a stage starts only after
\* all earlier ones are terminal, and at return every stage is terminal.
C5_StatusTransitions ==
    /\ [](\A c \in active : StatusesConsistent(c))
    /\ [][\A c \in Contexts : \A s \in Stages : StatusStepAllowed(c, s)]_vars

\* mid-run: one stage failed, one succeeded, one is running, the rest pending
C5_Witness ==
    /\ StatusOf("ctx_a", "parsing") = "failed"
    /\ StatusOf("ctx_a", "feature_extraction") = "success"
    /\ StatusOf("ctx_a", "ats_simulation") = "running"
    /\ StatusOf("ctx_a", "recruiter_evaluation") = "pending"
    /\ run_pc["ctx_a"] = "stage_status"
    /\ outcome["ctx_a"]["ats_simulation"] = "fault"

\* C6: at return stage_timings has an entry for each of the seven stages,
\* failed ones included, and an entry exists only for a terminal stage.
C6_TimingsRecorded ==
    \A c \in active :
        /\ Returned(c) => DOMAIN stage_timings[c] = Stages
        /\ \A s \in DOMAIN stage_timings[c] : Terminal(c, s)
        /\ \A s \in Stages :
              Terminal(c, s) /\ ~(run_pc[c] = "stage_end" /\ CurrentStage(c) = s)
                    => s \in DOMAIN stage_timings[c]

\* run returned with failed and successful stages, and a failed stage has a
\* positive duration
C6_Witness ==
    /\ Returned("ctx_a")
    /\ StatusOf("ctx_a", "scoring") = "failed"
    /\ StatusOf("ctx_a", "explainability") = "success"
    /\ stage_timings["ctx_a"]["scoring"] = 1
    /\ stage_timings["ctx_a"]["explainability"] = 0

\* the dicts of a context as its own run alone determines them
OwnKeys(c, upto) == {StageOrder[i] : i \in 1..upto}

StagesBegun(c) ==
    IF run_pc[c] \in {"call", "stage_begin"}
    THEN (IF run_pc[c] = "call" THEN 0 ELSE stage_idx[c] - 1)
    ELSE stage_idx[c]

StagesTimed(c) ==
    IF run_pc[c] = "returned" THEN stage_idx[c]
    ELSE IF run_pc[c] = "call" THEN 0 ELSE stage_idx[c] - 1

-----------------------------------------------------------------------------
(* Properties of the evaluators *)

InScoreRange(score) == 0 <= score /\ score <= FullScore

\* C3: the compatibility score of ATSSimulator.simulate, the evaluation score
\* of RecruiterEvaluator.evaluate and the readiness score of
\* InterviewReadinessEvaluator.evaluate each lie within [0,100], however many
\* penalties accumulate.
C3_StageScoresInRange ==
    /\ ~IsNone(ats_result) => InScoreRange(Get(ats_result).compatibility_score)
    /\ ~IsNone(recruiter_result) => InScoreRange(Get(recruiter_result).evaluation_score)
    /\ ~IsNone(interview_result) => InScoreRange(Get(interview_result).readiness_score)

\* all three evaluators have returned, the ATS penalties and the interview
\* penalties each add up to more than 100, and red flags were deducted
C3_Witness ==
    /\ pc = "aggregate"
    /\ CompatibilityDeductions(Get(ats_result)) > FullScore
    /\ Get(ats_result).compatibility_score = 0
    /\ ReadinessRawScore(Get(interview_result).resume_claims,
                         Get(interview_result).consistency_risks) < 0
    /\ Get(interview_result).readiness_score = 0
    /\ Get(recruiter_result).red_flags # <<>>
    /\ Get(recruiter_result).evaluation_score < FullScore

\* C8: calling the evaluators a second time with identical inputs returns
\* field-for-field identical outputs: scores, list contents, list order and
\* description texts depend on nothing but the inputs.
C8_RepeatedCallsIdentical ==
    (pc = "aggregate" /\ ~IsNone(first_outputs)) => Outputs = Get(first_outputs)

\* C9: after extract, each of the six features is recorded either as computed
\* (a computation_method entry) or in missing_features: exactly one of the
\* two, never both and never neither.
C9_ExactlyOneOfComputedOrMissing ==
    ~IsNone(features) =>
        \A i \in DOMAIN FeatureNames :
            (FeatureNames[i] \in DOMAIN Get(features).computation_method)
                # InSeq(FeatureNames[i], Get(features).missing_features)

\* C10: extract then simulate on a resume without email and phone but with
\* work experience, against a job description that defines no required skills
\* and no required education, gives compatibility_score 50.0 and exactly the
\* two rejection reasons for email and phone.
C10_MissingContactScenario ==
    (/\ ~IsNone(ats_result)
     /\ ~Present(resume.email)
     /\ ~Present(resume.phone)
     /\ resume.work_experience # <<>>
     /\ jd.required_skills = <<>>
     /\ IsNone(jd.required_education))
    => /\ Get(ats_result).compatibility_score = 5000
       /\ Get(ats_result).rejection_reasons =
             <<"Missing required field: email", "Missing required field: phone">>

\* the rejection reasons that do not come from the keyword matching
OtherReasonCount(ats) ==
    (IF ~ats.required_fields_status.email THEN 1 ELSE 0)
    + (IF ~ats.required_fields_status.phone THEN 1 ELSE 0)
    + (IF ~ats.required_fields_status.work_history THEN 1 ELSE 0)
    + (IF Failed(ats.hard_filters.experience_met) THEN 1 ELSE 0)
    + (IF Failed(ats.hard_filters.education_met) THEN 1 ELSE 0)

CountIn(strs, x) == Cardinality({i \in DOMAIN strs : strs[i] = x})

\* the required skills that equal some resume skill when case is ignored
MatchedRequired(r, j) ==
    {i \in DOMAIN j.required_skills :
        \E k \in DOMAIN r.skills : Lower(j.required_skills[i]) = Lower(r.skills[k])}

FieldAndFilterDeductions(r, fv) ==
    (IF ~Present(r.email) THEN 2500 ELSE 0)
    + (IF ~Present(r.phone) THEN 2500 ELSE 0)
    + (IF r.work_experience = <<>> THEN 3000 ELSE 0)
    + (IF Failed(fv.categorical.has_required_skills) THEN 2000 ELSE 0)
    + (IF Failed(fv.categorical.has_required_degree) THEN 1500 ELSE 0)

\* C12: when required_skills is empty, simulate returns
\* keyword_match_percentage = 100.0 for every resume and every feature
\* vector, deducts nothing for a keyword shortfall and appends no keyword
\* rejection reason.
C12_NoRequiredSkills ==
    (~IsNone(ats_result) /\ jd.required_skills = <<>>) =>
        LET ats == Get(ats_result)
        IN  /\ ats.keyword_match_percentage = FullScore
            /\ ats.compatibility_score
                  = Max(0, FullScore - FieldAndFilterDeductions(resume, Get(features)))
            /\ Len(ats.rejection_reasons) = OtherReasonCount(ats)

\* no required skills, a resume with skills and a feature vector that says 0
\* keywords matched
C12_Witness ==
    /\ ~IsNone(ats_result)
    /\ jd.required_skills = <<>>
    /\ resume.skills # <<>>
    /\ Get(features).quantitative.keyword_match_count = Some(0)
    /\ Get(ats_result).keyword_match_percentage = FullScore
    /\ Get(ats_result).compatibility_score = FullScore

\* C15: compatibility_score is 100 minus 25 for a missing email, 25 for a
\* missing phone, 30 for missing work history, 20 for a defined and failed
\* experience filter, 15 for a defined and failed education filter and
\* min(20, 60 - keyword_match_percentage) below 60 percent, floored at 0; an
\* undefined filter and a missing education section cost nothing.
C15_CompatibilityScore ==
    ~IsNone(ats_result) =>
        LET ats == Get(ats_result)
            keyword_penalty == IF ats.keyword_match_percentage < 6000
                               THEN Min(2000, 6000 - ats.keyword_match_percentage)
                               ELSE 0
        IN  ats.compatibility_score
               = Max(0, FullScore - FieldAndFilterDeductions(resume, Get(features))
                                  - keyword_penalty)

\* a keyword shortfall of more than 20 points, a failed experience filter, an
\* undefined education filter and no education section: 100 - 20 - 20
C15_Witness ==
    /\ ~IsNone(ats_result)
    /\ Get(ats_result).keyword_match_percentage < 4000
    /\ Present(resume.email) /\ Present(resume.phone) /\ resume.work_experience # <<>>
    /\ resume.education = <<>>
    /\ Get(features).categorical.has_required_skills = Some(FALSE)
    /\ IsNone(Get(features).categorical.has_required_degree)
    /\ Get(ats_result).compatibility_score = 6000

-----------------------------------------------------------------------------
(* Properties of the risk-factor ranking *)

\* two risk factors made from the same stage result or signal
SameFactor(f, g) == f.stage = g.stage /\ f.description = g.description

\* the place of a risk factor in the order the factors were collected in
InputPlace(collected, f) ==
    CHOOSE i \in DOMAIN collected :
        /\ SameFactor(collected[i], f)
        /\ \A k \in 1..(i - 1) : ~SameFactor(collected[k], f)

FactorsOfStage(factors, stage) == SelectSeq(factors, LAMBDA f : f.stage = stage)

\* C14: risk_factors is sorted ascending by impact_on_overall_probability,
\* factors of equal impact keep their input order (ATS risk, red flags,
\* consistency risks, negative signals), and there is one entry per red flag,
\* per consistency risk and per negative signal, plus one ATS entry exactly
\* when compatibility_score < 50.
C14_RiskFactorsRanked ==
    (pc = "done" /\ ~IsNone(aggregated_score)) =>
        LET ats == Get(ats_result)
            rec == Get(recruiter_result)
            int == Get(interview_result)
            summary == Get(signal_summary)
            rf == Get(aggregated_score).risk_factors
            collected == CollectRiskFactors(ats, rec, int, summary)
            from_rec == FactorsOfStage(rf, <<"recruiter">>)
            from_int == FactorsOfStage(rf, <<"interview">>)
            from_signals == SelectSeq(rf, LAMBDA f : Len(f.stage) > 1)
        IN  /\ \A i, j \in DOMAIN rf :
                  i < j => /\ rf[i].impact_on_overall_probability
                                <= rf[j].impact_on_overall_probability
                           /\ rf[i].impact_on_overall_probability
                                 = rf[j].impact_on_overall_probability
                              => InputPlace(collected, rf[i]) < InputPlace(collected, rf[j])
            /\ Len(FactorsOfStage(rf, <<"ats">>))
                  = (IF ats.compatibility_score < 5000 THEN 1 ELSE 0)
            /\ Len(from_rec) = Len(rec.red_flags)
            /\ \A i \in DOMAIN rec.red_flags :
                  \E k \in DOMAIN from_rec :
                      /\ from_rec[k].description = rec.red_flags[i].description
                      /\ from_rec[k].severity = rec.red_flags[i].severity
            /\ Len(from_int) = Len(int.consistency_risks)
            /\ \A i \in DOMAIN int.consistency_risks :
                  \E k \in DOMAIN from_int :
                      /\ from_int[k].description = int.consistency_risks[i].description
                      /\ from_int[k].severity = int.consistency_risks[i].severity
            /\ Len(from_signals) = Len(summary.negative_signals)
            /\ \A i \in DOMAIN summary.negative_signals :
                  \E k \in DOMAIN from_signals :
                      from_signals[k].factor = summary.negative_signals[i].signal
            /\ Len(rf) = Len(FactorsOfStage(rf, <<"ats">>)) + Len(from_rec)
                         + Len(from_int) + Len(from_signals)

\* the sort has moved a factor, and two factors of equal impact from
\* different stages stand in their input order
C14_Witness ==
    /\ pc = "done" /\ ~IsNone(aggregated_score)
    /\ LET rf == Get(aggregated_score).risk_factors
           collected == CollectRiskFactors(Get(ats_result), Get(recruiter_result),
                                           Get(interview_result), Get(signal_summary))
       IN  /\ Len(rf) >= 4
           /\ \E i \in DOMAIN rf : ~SameFactor(rf[i], collected[i])
           /\ \E i, j \in DOMAIN rf :
                 /\ i < j
                 /\ rf[i].stage = <<"ats">>
                 /\ rf[j].stage = <<"recruiter">>
                 /\ rf[i].impact_on_overall_probability = rf[j].impact_on_overall_probability

-----------------------------------------------------------------------------
(* Properties of the recommendation ranking *)

\* the recommendations generate() builds before it ranks them
Generated ==
    GenerateAll(Get(ats_result), Get(recruiter_result), Get(interview_result),
                Get(aggregated_score))

SameKeys(a, b) ==
    /\ PriorityScore(a.priority) = PriorityScore(b.priority)
    /\ Abs(a.impact_score_delta) = Abs(b.impact_score_delta)

\* the recommendations of recs that have the keys of x, in the order of recs
WithKeysOf(recs, x) == SelectSeq(recs, LAMBDA y : SameKeys(x, y))

\* C13: the list generate() returns is ordered by priority (critical, high,
\* medium, low), within one priority by non-increasing absolute
\* impact_score_delta, recommendations equal on both keys keep their
\* generation order, and the list is a permutation of the generated one.
C13_RecommendationsRanked ==
    pc = "recommended" =>
        LET out == Get(recommendations)
            gen == Generated
        IN  /\ Len(out) = Len(gen)
            /\ \A i, j \in DOMAIN out :
                   i < j =>
                      /\ PriorityScore(out[i].priority) <= PriorityScore(out[j].priority)
                      /\ out[i].priority = out[j].priority =>
                             Abs(out[i].impact_score_delta) >= Abs(out[j].impact_score_delta)
            /\ \A i \in DOMAIN gen : WithKeysOf(out, gen[i]) = WithKeysOf(gen, gen[i])

\* a ranked list that differs from the generated one, holds two priorities,
\* two different impacts within one priority, and two different
\* recommendations equal on both keys
C13_Witness ==
    /\ pc = "recommended"
    /\ Get(recommendations) # Generated
    /\ LET out == Get(recommendations) IN
       \E i, j, k, l \in DOMAIN out :
          /\ i < j /\ k < l
          /\ out[i].priority = out[j].priority
          /\ Abs(out[i].impact_score_delta) > Abs(out[j].impact_score_delta)
          /\ SameKeys(out[k], out[l])
          /\ out[k].stage_affected # out[l].stage_affected
          /\ \E m \in DOMAIN out : out[m].priority # out[i].priority

-----------------------------------------------------------------------------
(* Properties of the values of missing features *)

\* the value the feature vector holds under a feature name
FeatureValue(fv, name) ==
    IF name \in DOMAIN fv.quantitative THEN fv.quantitative[name] ELSE fv.categorical[name]

\* C16: a feature that extract lists in missing_features because its
\* prerequisite data is absent is left unset (None) in the returned vector,
\* not 0, 0.0 or False.
C16_MissingFeaturesUnset ==
    ~IsNone(features) =>
        \A i \in DOMAIN Get(features).missing_features :
            IsNone(FeatureValue(Get(features), Get(features).missing_features[i]))

-----------------------------------------------------------------------------
(* Properties of the application of the compounding signals *)

\* p + effect held in [0,1]
AddClamped(p, effect) == Max(0, Min(PUnit, p + effect))

\* the effect of one signal added to every stage the signal names
AddToNamedStages(p, signal) ==
    LET e == signal.compound_effect
    IN  StageProbabilities(
            IF Affects(signal, "ats") THEN AddClamped(p.ats_pass, e) ELSE p.ats_pass,
            IF Affects(signal, "recruiter") THEN AddClamped(p.recruiter_pass, e)
            ELSE p.recruiter_pass,
            IF Affects(signal, "interview") THEN AddClamped(p.interview_pass, e)
            ELSE p.interview_pass,
            IF Affects(signal, "offer") THEN AddClamped(p.offer, e) ELSE p.offer)

RECURSIVE AddAllToNamedStages(_, _)
AddAllToNamedStages(p, signals) ==
    IF signals = <<>> THEN p
    ELSE AddAllToNamedStages(AddToNamedStages(p, Head(signals)), Tail(signals))

\* C17: every signal's compound_effect is added to the probability of each
\* stage named in its stages_affected (ats, recruiter, interview, offer), the
\* positive signals first and the negative ones after, with a clamp to [0,1]
\* after each addition, and only then are the funnel caps applied.
C17_EffectsAddedToNamedStages ==
    pc = "done" /\ ~IsNone(aggregated_score) =>
        LET base == calculate_base_probabilities(Get(ats_result), Get(recruiter_result),
                                                 Get(interview_result))
            summary == Get(aggregated_score).signal_compounding_summary
        IN  Get(aggregated_score).stage_probabilities =
                FunnelCaps(AddAllToNamedStages(base, summary.positive_signals
                                                     \o summary.negative_signals))

-----------------------------------------------------------------------------
(* Properties of SignalCompoundingEngine.apply *)

Summary == Get(signal_summary)

Effects(signals) == [i \in DOMAIN signals |-> signals[i].compound_effect]

\* the signals of the risk-compounding rule: the only ones that name three
\* stages or more
RiskCompoundingSignals(signals) == SelectSeq(signals, LAMBDA g : Len(g.stages_affected) >= 3)

\* the signals of the interview-dominance rule: the only ones on interview and offer
InterviewSignals(signals) ==
    SelectSeq(signals, LAMBDA g : g.stages_affected = <<"interview", "offer">>)

\* the signals of the ATS-influence rule: the only ones that start at the ATS
\* stage and name two stages
ATSSignals(signals) ==
    SelectSeq(signals, LAMBDA g : Len(g.stages_affected) = 2 /\ g.stages_affected[1] = "ats")

CriticalAmongStageRisks ==
    \/ SeverityCount(Get(recruiter_result).red_flags, "critical") >= 1
    \/ SeverityCount(Get(interview_result).consistency_risks, "critical") >= 1

\* the effects of the medium rule and of the high rule, in that order
MediumAndHighEffects ==
    (IF SeverityCount(Get(interview_result).consistency_risks, "medium") >= 3
     THEN <<-20000>> ELSE <<>>)
    \o (IF SeverityCount(Get(recruiter_result).red_flags, "high")
           + SeverityCount(Get(interview_result).consistency_risks, "high") >= 2
        THEN <<-25000>> ELSE <<>>)

\* C18 as stated: the risk-compounding rule emits -0.35 exactly when a risk
\* of severity critical is among the recruiter red flags or the interview
\* consistency risks, then -0.20 exactly for at least 3 medium consistency
\* risks, then -0.25 exactly for at least 2 high risks of recruiter and
\* interview together; all are placed in negative_signals.
C18_RiskCompoundingAsStated ==
    pc = "signalled" =>
        /\ RiskCompoundingSignals(Summary.positive_signals) = <<>>
        /\ Effects(RiskCompoundingSignals(Summary.negative_signals)) =
              (IF CriticalAmongStageRisks THEN <<-35000>> ELSE <<>>) \o MediumAndHighEffects

\* C18 (amended): as stated, except that the -0.35 signal is emitted exactly
\* when a risk of severity critical is among the recruiter red flags or the
\* interview consistency risks, or the ATS compatibility_score is below 40.
C18_RiskCompounding ==
    pc = "signalled" =>
        /\ RiskCompoundingSignals(Summary.positive_signals) = <<>>
        /\ Len(RiskCompoundingSignals(Summary.negative_signals)) <= 3
        /\ Effects(RiskCompoundingSignals(Summary.negative_signals)) =
              (IF CriticalAmongStageRisks \/ Get(ats_result).compatibility_score < 4000
               THEN <<-35000>> ELSE <<>>) \o MediumAndHighEffects

\* all three signals at once, the first one for the ATS score alone and the
\* last one for a high red flag together with a high consistency risk
C18_Witness ==
    /\ pc = "signalled"
    /\ ~CriticalAmongStageRisks
    /\ SeverityCount(Get(recruiter_result).red_flags, "high") = 1
    /\ SeverityCount(Get(interview_result).consistency_risks, "high") = 1
    /\ Effects(RiskCompoundingSignals(Summary.negative_signals)) = <<-35000, -20000, -25000>>

\* C19: the interview-dominance rule emits at most one signal, the first
\* match of: a critical consistency risk -> -0.40; at least 2 high ones ->
\* -0.25; exactly 1 high one -> -0.15; readiness_score < 50 -> -0.20;
\* readiness_score >= 80 -> +0.10; otherwise none. A negative effect goes to
\* negative_signals and the +0.10 to positive_signals.
C19_InterviewDominance ==
    pc = "signalled" =>
        LET int == Get(interview_result)
            critical == SeverityCount(int.consistency_risks, "critical")
            high == SeverityCount(int.consistency_risks, "high")
            effect == IF critical >= 1 THEN <<-40000>>
                      ELSE IF high >= 2 THEN <<-25000>>
                      ELSE IF high = 1 THEN <<-15000>>
                      ELSE IF int.readiness_score < 5000 THEN <<-20000>>
                      ELSE IF int.readiness_score >= 8000 THEN <<10000>>
                      ELSE <<>>
        IN  /\ Effects(InterviewSignals(Summary.positive_signals))
                  = SelectSeq(effect, LAMBDA e : e > 0)
            /\ Effects(InterviewSignals(Summary.negative_signals))
                  = SelectSeq(effect, LAMBDA e : e < 0)
            /\ (critical >= 1 \/ high >= 1) =>
                  \A i \in DOMAIN InterviewSignals(Summary.negative_signals) :
                     InterviewSignals(Summary.negative_signals)[i].compound_effect
                        \in {-40000, -25000, -15000}

\* a readiness score of at least 80 that has no effect because of one high
\* consistency risk: the signal is the -0.15 one
C19_Witness ==
    /\ pc = "signalled"
    /\ Get(interview_result).readiness_score >= 8000
    /\ SeverityCount(Get(interview_result).consistency_risks, "high") = 1
    /\ SeverityCount(Get(interview_result).consistency_risks, "critical") = 0
    /\ InterviewSignals(Summary.positive_signals) = <<>>
    /\ Effects(InterviewSignals(Summary.negative_signals)) = <<-15000>>

\* C20: apply emits exactly one ATS-influence signal, which affects the
\* recruiter stage: +0.05 in positive_signals when compatibility_score >= 80,
\* -0.15 when it is below 50 and -0.05 from 50 to below 80, both in
\* negative_signals; every positive signal has a strictly positive effect and
\* every negative signal a strictly negative one.
C20_ATSInfluence ==
    pc = "signalled" =>
        LET score == Get(ats_result).compatibility_score
            pos == ATSSignals(Summary.positive_signals)
            neg == ATSSignals(Summary.negative_signals)
        IN  /\ Len(pos) + Len(neg) = 1
            /\ \A i \in DOMAIN (pos \o neg) : InSeq("recruiter", (pos \o neg)[i].stages_affected)
            /\ Effects(pos) = IF score >= 8000 THEN <<5000>> ELSE <<>>
            /\ Effects(neg) = IF score < 5000 THEN <<-15000>>
                              ELSE IF score < 8000 THEN <<-5000>>
                              ELSE <<>>
            /\ \A i \in DOMAIN Summary.positive_signals :
                  Summary.positive_signals[i].compound_effect > 0
            /\ \A i \in DOMAIN Summary.negative_signals :
                  Summary.negative_signals[i].compound_effect < 0

\* a score just below 50 gives the -0.15 signal, next to a positive interview
\* signal and a risk-compounding signal
C20_Witness ==
    /\ pc = "signalled"
    /\ Get(ats_result).compatibility_score = 4999
    /\ Effects(ATSSignals(Summary.negative_signals)) = <<-15000>>
    /\ Summary.positive_signals # <<>>
    /\ Len(Summary.negative_signals) >= 2

-----------------------------------------------------------------------------
(* Properties of the base probabilities *)

\* aggregate() holds the base probabilities: no signal has been applied yet
AtBaseProbabilities ==
    /\ ~IsNone(adjusted) /\ ~IsNone(signal_summary)
    /\ sig_idx = 1
    /\ \/ pc = "positive"
       \/ pc = "negative" /\ Get(signal_summary).positive_signals = <<>>

\* C21: before compounding, ats_pass, recruiter_pass and interview_pass are
\* the stage scores (scores in [0,100]) divided by 100; the base offer is
\* 0.7 + (interview_pass - 0.5) x 0.4 when interview_pass > 0.5 and
\* interview_pass x 0.5 otherwise, so it lies in (0.7, 0.9] when
\* readiness_score > 50 and in [0, 0.25] otherwise.
C21_BaseProbabilities ==
    AtBaseProbabilities =>
        LET ats_score == Get(ats_result).compatibility_score
            recruiter_score == Get(recruiter_result).evaluation_score
            interview_score == Get(interview_result).readiness_score
        IN  /\ InScoreRange(ats_score) => Probs.ats_pass * FullScore = ats_score * PUnit
            /\ InScoreRange(recruiter_score) =>
                  Probs.recruiter_pass * FullScore = recruiter_score * PUnit
            /\ InScoreRange(interview_score) =>
                  Probs.interview_pass * FullScore = interview_score * PUnit
            /\ Probs.interview_pass > 50000 =>
                  10 * Probs.offer = 10 * 70000 + (Probs.interview_pass - 50000) * 4
            /\ Probs.interview_pass <= 50000 => 2 * Probs.offer = Probs.interview_pass
            /\ interview_score > 5000 => Probs.offer > 70000 /\ Probs.offer <= 90000
            /\ interview_score <= 5000 => Probs.offer >= 0 /\ Probs.offer <= 25000

\* a readiness score of exactly 50 gives the base offer 0.25, the top of the
\* lower piece
C21_Witness ==
    /\ AtBaseProbabilities
    /\ Get(interview_result).readiness_score = 5000
    /\ Probs.interview_pass = 50000
    /\ Probs.offer = 25000
    /\ Probs.ats_pass = 44990

-----------------------------------------------------------------------------
(* Properties of the overall score *)

\* 0.30 x compatibility_score + 0.30 x evaluation_score + 0.40 x readiness_score,
\* in thousandths of a point
WeightedSum ==
    3 * Get(ats_result).compatibility_score + 3 * Get(recruiter_result).evaluation_score
    + 4 * Get(interview_result).readiness_score

\* value, in hundredths, is the amount of thousandths given to two decimals
ToTwoDecimals(value, thousandths) ==
    /\ 2 * (10 * value - thousandths) <= 10
    /\ 2 * (thousandths - 10 * value) <= 10

\* C22: overall_score is 0.30 x compatibility_score + 0.30 x evaluation_score
\* + 0.40 x readiness_score clamped to [0,100] (to two decimals): it is fixed
\* by the three stage scores alone, whatever the red flags, consistency
\* risks, signals and stage probabilities are; the three
\* component_contributions are those three weighted terms.
C22_OverallScore ==
    pc = "done" /\ ~IsNone(aggregated_score) =>
        LET agg == Get(aggregated_score)
            contributions == agg.component_contributions
        IN  /\ ToTwoDecimals(agg.overall_score, Max(0, Min(10 * FullScore, WeightedSum)))
            /\ InScoreRange(agg.overall_score)
            /\ ToTwoDecimals(contributions.ats_contribution,
                             3 * Get(ats_result).compatibility_score)
            /\ ToTwoDecimals(contributions.recruiter_contribution,
                             3 * Get(recruiter_result).evaluation_score)
            /\ ToTwoDecimals(contributions.interview_contribution,
                             4 * Get(interview_result).readiness_score)

\* red flags, consistency risks and negative signals have brought the offer
\* probability to 0, and the overall score is still the weighted sum of the
\* scores 44.99, 100 and 80, given to two decimals
C22_Witness ==
    /\ pc = "done" /\ ~IsNone(aggregated_score)
    /\ Get(recruiter_result).red_flags # <<>>
    /\ Get(interview_result).consistency_risks # <<>>
    /\ Get(aggregated_score).stage_probabilities.offer = 0
    /\ WeightedSum = 3 * 4499 + 3 * FullScore + 4 * 8000
    /\ Get(aggregated_score).overall_score = 7550
    /\ Get(aggregated_score).component_contributions.ats_contribution = 1350

-----------------------------------------------------------------------------
(* Properties of the hard filters *)

\* the rejection reasons that are fixed texts: all but the keyword reason,
\* which comes last when keywords are missing
TextReasons(ats) ==
    LET shortfall == ats.keyword_breakdown.total_matched < ats.keyword_breakdown.total_required
    IN  SubSeq(ats.rejection_reasons, 1,
               Len(ats.rejection_reasons) - (IF shortfall THEN 1 ELSE 0))

\* a filter that is not defined, or defined and True
NotFailed(filter) == IsNone(filter) \/ Get(filter)

\* C23: simulate takes experience_met and education_met from the feature
\* vector's has_required_skills and has_required_degree, sets all_met to the
\* AND of those of the two that are defined, leaves all_met unset exactly
\* when both are undefined, and appends one rejection reason for each
\* defined filter that is false and none for an undefined filter.
C23_HardFilters ==
    ~IsNone(ats_result) /\ ~IsNone(features) =>
        LET fv == Get(features)
            ats == Get(ats_result)
            filters == ats.hard_filters
        IN  /\ filters.experience_met = fv.categorical.has_required_skills
            /\ filters.education_met = fv.categorical.has_required_degree
            /\ IsNone(filters.all_met)
                  <=> (IsNone(filters.experience_met) /\ IsNone(filters.education_met))
            /\ ~IsNone(filters.all_met) =>
                  (Get(filters.all_met)
                      <=> (NotFailed(filters.experience_met) /\ NotFailed(filters.education_met)))
            /\ CountIn(TextReasons(ats), "Hard filter failed: missing required skills")
                  = (IF Failed(filters.experience_met) THEN 1 ELSE 0)
            /\ CountIn(TextReasons(ats), "Hard filter failed: missing required education")
                  = (IF Failed(filters.education_met) THEN 1 ELSE 0)

\* the skills filter is undefined and the education filter is met: all_met
\* is True and there is no hard-filter reason, next to a keyword reason
C23_Witness ==
    /\ ~IsNone(ats_result) /\ ~IsNone(features)
    /\ IsNone(Get(features).categorical.has_required_skills)
    /\ Get(features).categorical.has_required_degree = Some(TRUE)
    /\ Get(ats_result).hard_filters.all_met = Some(TRUE)
    /\ Len(TextReasons(Get(ats_result))) < Len(Get(ats_result).rejection_reasons)
    /\ CountIn(TextReasons(Get(ats_result)), "Hard filter failed: missing required skills") = 0

-----------------------------------------------------------------------------
(* Properties of the claim extraction *)

\* the texts one job is said to contribute: its achievements when it has
\* some, the fragments of its description longer than 10 characters otherwise
AchievementsElseDescription(job) ==
    IF job.achievements # <<>> THEN job.achievements
    ELSE SelectSeq(job.description, LAMBDA b : Chars(b) > 10)

\* C24: each job contributes claims from its achievements list when that list
\* has entries and from the fragments of its description only otherwise;
\* skill claims (at most 5, defensibility 0.5, risk medium) are produced only
\* when no job yields any claim.
C24_AchievementsElseDescription ==
    ~IsNone(interview_result) =>
        LET claims == Get(interview_result).resume_claims
            texts == Flatten([i \in DOMAIN resume.work_experience |->
                                 AchievementsElseDescription(resume.work_experience[i])])
        IN  IF texts # <<>>
            THEN /\ Len(claims) = Len(texts)
                 /\ \A i \in DOMAIN claims :
                       /\ claims[i].claim_type = "achievement"
                       /\ claims[i].claim_text = texts[i]
            ELSE /\ Len(claims) = Min(5, Len(resume.skills))
                 /\ \A i \in DOMAIN claims :
                       /\ claims[i].claim_type = "skill"
                       /\ claims[i].defensibility_score = 50
                       /\ claims[i].consistency_risk = Some("medium")

\* the (defensibility, depth, risk) combination the four facts about a text select
DefensibilityCase(t) ==
    CASE HasMetrics(t) -> <<90, "deep", None>>
      [] ~HasMetrics(t) /\ HasSpecificActions(t) /\ ~IsVague(t) -> <<70, "moderate", None>>
      [] ~HasMetrics(t) /\ (IsVague(t) \/ (~HasSpecificActions(t) /\ Words(t) < 5)) ->
            <<30, "surface", Some("high")>>
      [] OTHER -> <<50, "moderate", Some("medium")>>

\* C25: a text-derived claim gets (0.9, deep, no risk) when its text has a
\* metric, else (0.7, moderate, no risk) with an action verb and no vague
\* marker, else (0.3, surface, high) with a vague marker or fewer than 5
\* words, else (0.5, moderate, medium); a claim with a metric has no risk and
\* no predicted question, vague wording or not.
C25_DefensibilityByFirstMatch ==
    ~IsNone(interview_result) =>
        LET out == Get(interview_result)
        IN  \A i \in DOMAIN out.resume_claims :
               LET claim == out.resume_claims[i]
               IN  claim.claim_type = "achievement" =>
                      /\ <<claim.defensibility_score, claim.depth_indicator,
                           claim.consistency_risk>> = DefensibilityCase(claim.claim_text)
                      /\ HasMetrics(claim.claim_text) =>
                            /\ IsNone(claim.consistency_risk)
                            /\ \A q \in DOMAIN out.predicted_questions :
                                  out.predicted_questions[q].related_claim
                                      # Truncate(claim.claim_text, 100)

\* an evaluated resume holding a claim with a metric and a vague marker next
\* to a claim that did get questions
C25_Witness ==
    /\ ~IsNone(interview_result)
    /\ LET out == Get(interview_result)
       IN  /\ \E i \in DOMAIN out.resume_claims :
                 /\ out.resume_claims[i].claim_type = "achievement"
                 /\ HasMetrics(out.resume_claims[i].claim_text)
                 /\ IsVague(out.resume_claims[i].claim_text)
                 /\ out.resume_claims[i].defensibility_score = 90
           /\ out.predicted_questions # <<>>

\* (question type, likelihood in hundredths, claim) of the questions one claim is
\* said to raise
ExpectedOfClaim(claim) ==
    LET risky == claim.consistency_risk # None
        deep == IF risky
                THEN <<<<"resume_deep_dive",
                         IF claim.consistency_risk = Some("high") THEN 80 ELSE 60>>>>
                ELSE <<>>
        challenge == IF risky /\ claim.defensibility_score < 50
                     THEN <<<<"behavioral", 70>>>> ELSE <<>>
        measurement == IF risky /\ Len(claim.supporting_evidence) = 0
                       THEN <<<<"situational", 70>>>> ELSE <<>>
        kinds == deep \o challenge \o measurement
    IN  [k \in DOMAIN kinds |-> <<kinds[k][1], kinds[k][2], ClaimPrefix(claim, 100)>>]

RECURSIVE ExpectedQuestions(_)
ExpectedQuestions(claims) ==
    IF claims = <<>> THEN <<>>
    ELSE ExpectedOfClaim(Head(claims)) \o ExpectedQuestions(Tail(claims))

\* C26: predicted_questions is the first 10 of the questions raised claim by
\* claim, in order: for a claim with risk high or medium a deep-dive question
\* (0.8 if high, 0.6 if medium), a challenge question (0.7) if defensibility is
\* below 0.5, a measurement question (0.7) if there is no supporting evidence.
C26_FirstTenQuestions ==
    ~IsNone(interview_result) =>
        LET out == Get(interview_result)
            expected == ExpectedQuestions(out.resume_claims)
            questions == out.predicted_questions
        IN  /\ Len(questions) = Min(10, Len(expected))
            /\ \A k \in DOMAIN questions :
                  <<questions[k].question_type, questions[k].likelihood,
                    questions[k].related_claim>> = expected[k]

\* more than 10 questions were raised, the last of them by a later claim
\* than the tenth
C26_Witness ==
    /\ ~IsNone(interview_result)
    /\ LET out == Get(interview_result)
           expected == ExpectedQuestions(out.resume_claims)
       IN  /\ Len(expected) > 10
           /\ Len(out.predicted_questions) = 10
           /\ expected[Len(expected)][3] # expected[10][3]

FlagsOfSeverity(red_flags, severity) ==
    Cardinality({i \in DOMAIN red_flags : red_flags[i].severity = severity})

\* the evaluation score as stated, in hundredths of a point
StatedEvaluationScore(progression, stability, red_flags) ==
    LET progression_penalty == IF progression < 50 THEN (50 - progression) * 30 ELSE 0
        stability_penalty == IF stability < 50 THEN (50 - stability) * 40 ELSE 0
        deductions == 2000 * FlagsOfSeverity(red_flags, "critical")
                      + 1000 * FlagsOfSeverity(red_flags, "high")
                      + 500 * FlagsOfSeverity(red_flags, "medium")
                      + 200 * FlagsOfSeverity(red_flags, "low")
        score == FullScore - progression_penalty - stability_penalty - deductions
    IN  IF score < 0 THEN 0 ELSE IF score > FullScore THEN FullScore ELSE score

\* C27: evaluation_score is 100 minus (0.5 - progression) x 30 below 0.5, minus
\* (0.5 - stability) x 40 below 0.5, minus 20 / 10 / 5 / 2 per critical / high /
\* medium / low red flag, clamped to [0,100]; the red flags of a result are
\* those of the stability analysis followed by those of the quality checks.
C27_EvaluationScore ==
    (pc \in {"interview", "evaluated"}) =>
        LET result == Get(recruiter_result)
        IN  /\ result.evaluation_score =
                  StatedEvaluationScore(result.career_progression_score,
                                        result.job_stability_score, result.red_flags)
            /\ pc = "interview" =>
                  result.red_flags =
                      compute_job_stability_score(result.job_stability_analysis).red_flags
                      \o check_resume_quality(resume, Get(features))

\* both deficit penalties and a critical red flag were subtracted
C27_Witness ==
    /\ pc = "evaluated"
    /\ LET result == Get(recruiter_result)
       IN  /\ result.career_progression_score = 30
           /\ result.job_stability_score = 30
           /\ Len(result.red_flags) = 1
           /\ result.red_flags[1].severity = "critical"
           /\ result.evaluation_score = 6600

\* what a scenario projects: the current value plus the delta it reports, the
\* score in thousandths of a point and the probability in units of 0.00001
ProjectedScore(agg, scenario) == 10 * agg.overall_score + scenario.expected_impact.score_delta
ProjectedProbability(agg, scenario) ==
    agg.stage_probabilities.offer + scenario.expected_impact.probability_delta

\* C28: explain produces at most 3 counterfactuals, one for each of the first
\* three recommendations of priority critical or high, in ranked order; each
\* projects the score min(100, overall_score + impact_score_delta) and the offer
\* probability min(1, offer + impact_probability_delta), never more than 100 or 1.
C28_CounterfactualsProjectClamped ==
    ~IsNone(counterfactuals) =>
        LET scenarios == Get(counterfactuals)
            agg == Get(aggregated_score)
            top == SelectSeq(Get(recommendations),
                             LAMBDA rec : rec.priority \in {"critical", "high"})
        IN  /\ Len(scenarios) = Min(3, Len(top))
            /\ \A i \in DOMAIN scenarios :
                  /\ scenarios[i].change_description = top[i].action
                  /\ ProjectedScore(agg, scenarios[i])
                        = Min(10 * FullScore, 10 * agg.overall_score + top[i].impact_score_delta)
                  /\ ProjectedProbability(agg, scenarios[i])
                        = Min(PUnit, agg.stage_probabilities.offer
                                     + top[i].impact_probability_delta)

\* C29: evaluate returns a career progression score of at least 0.5 and a job
\* stability score of 1.0 when there is work history, of 0.6 with a high
\* job_hopping red flag when there is none; so no deficit penalty applies, no
\* red flag is critical and evaluation_score is at least 80.
C29_RecruiterScoresBounded ==
    ~IsNone(recruiter_result) =>
        LET result == Get(recruiter_result)
        IN  /\ result.career_progression_score >= 50
            /\ result.job_stability_score = IF resume.work_experience # <<>> THEN 100 ELSE 60
            /\ resume.work_experience = <<>> =>
                  \E i \in DOMAIN result.red_flags :
                     /\ result.red_flags[i].type = "job_hopping"
                     /\ result.red_flags[i].severity = "high"
            /\ \A i \in DOMAIN result.red_flags : result.red_flags[i].severity # "critical"
            /\ result.evaluation_score >= 8000
            /\ result.evaluation_score =
                  FullScore - SumSeq([i \in DOMAIN result.red_flags |->
                                         RedFlagDeduction(result.red_flags[i])])

\* a resume without work history evaluated at exactly 80
C29_Witness ==
    /\ ~IsNone(recruiter_result)
    /\ resume.work_experience = <<>>
    /\ Get(recruiter_result).job_stability_score = 60
    /\ Get(recruiter_result).evaluation_score = 8000

\* the signals of a summary that have the given compound effect
SignalsWithEffect(summary, effect) ==
    {i \in DOMAIN summary.positive_signals :
        summary.positive_signals[i].compound_effect = effect}
    \cup {-i : i \in {k \in DOMAIN summary.negative_signals :
                         summary.negative_signals[k].compound_effect = effect}}

\* C30: on the results of the evaluators no red flag and no consistency risk
\* is critical, so the -0.40 interview signal is never emitted and the -0.35
\* critical-risk signal is emitted exactly when compatibility_score is below 40.
C30_NoCriticalFromEvaluators ==
    ~IsNone(signal_summary) =>
        LET summary == Get(signal_summary)
            red_flags == Get(recruiter_result).red_flags
            risks == Get(interview_result).consistency_risks
        IN  /\ \A i \in DOMAIN red_flags : red_flags[i].severity # "critical"
            /\ \A i \in DOMAIN risks : risks[i].severity # "critical"
            /\ SignalsWithEffect(summary, -40000) = {}
            /\ SignalsWithEffect(summary, -35000) # {}
                  <=> Get(ats_result).compatibility_score < 4000

\* the -0.35 signal emitted for a resume the ATS stage scored below 40
C30_Witness ==
    /\ ~IsNone(signal_summary)
    /\ Get(ats_result).compatibility_score < 4000
    /\ SignalsWithEffect(Get(signal_summary), -35000) # {}
    /\ Get(interview_result).consistency_risks # <<>>

====
